---- MODULE Spec2Model ----
(***************************************************************************)
(* Richmond Market Bot: the payment ledger, the moderation workflow, the   *)
(* per-user conversation (FSM state + field bag) and the media-group       *)
(* photo aggregator, as state machines translated from the handlers.       *)
(*                                                                         *)
(* Spec       the ledger and its moderation: handlers run one at a time,   *)
(*            except check_payment_status, which is split at its ledger    *)
(*            read and its ledger write.                                   *)
(* SpecPost   the customer's post assembly, handlers one at a time.        *)
(* SpecPhoto  the photo handlers of one user, split at their awaits        *)
(*            (storage read, storage write, sleep), interleaved.           *)
(* SpecAlbum  SpecPhoto for one album of MIN_PHOTOS photos.                *)
(* SpecFields the text steps of the assembly and the previews.             *)
(* SpecPublish  SpecFields and the publication in the channel.             *)
(* SpecCancel the checkout, the start of a rejection, and giving up.       *)
(* SpecSelf   the checkouts of the customer and of the administrator, and  *)
(*            the moderation; the customer may have blocked the bot.       *)
(* SpecRefs   the moderation with callbacks carrying any payment id.       *)
(* SpecList   the moderation list over payments in any status, and the     *)
(*            payment checker.                                             *)
(* SpecOrder  the checkout with the callbacks that carry no state filter.  *)
(* SpecBroadcast  the broadcast dialogue of the administrator.             *)
(* SpecContinue   SpecPublish and the continue button.                     *)
(* SpecPrice  SpecFields with price texts of up to two decimals.           *)
(* SpecReceipt  the checkout, the confirm and the sending of a receipt.    *)
(* SpecRace   SpecFields and confirm_post split at its awaits.             *)
(* SpecReject the moderation list, opening payments and rejecting them.    *)
(* SpecStop   SpecPhoto and the cancel button.                             *)
(* FairPhoto  SpecPhoto with every handler in flight weakly fair.          *)
(* SpecCommit SpecPublish with a post table that may refuse an update.     *)
(***************************************************************************)
EXTENDS Integers, Sequences, FiniteSets, TLC

(******************************* configuration ****************************)
\* settings.ADMIN_ID (required setting, no default): the one administrator.
ADMIN_ID == 1
\* settings.MIN_PHOTOS, settings.MAX_PHOTOS
MIN_PHOTOS == 3
MAX_PHOTOS == 10
\* settings.REGULAR_POST_PRICE, settings.PINNED_POST_PRICE
REGULAR_POST_PRICE == 200
PINNED_POST_PRICE == 1000

\* The people who talk to the bot: the administrator and one customer.
Customer == ADMIN_ID + 1
Users == {ADMIN_ID, Customer}

(********************************* bounds *********************************)
\* Payments the ledger may hold (payment creation is disabled beyond it).
MaxPayments == 1
\* Posts the post table may hold.
MaxPosts == 1
\* Admin-log entries kept (logging handlers are disabled beyond it).
MaxLogs == 2
\* Photo events dispatched in SpecPhoto.
MaxEvents == 2
\* Payments in the ledger SpecList starts from.
MaxListed == 3
\* Recipients of a broadcast.
MaxRecipients == 3

(***************************** config.py enums ****************************)
PENDING == "pending"
CHECKING == "checking"
CONFIRMED == "confirmed"
REJECTED == "rejected"
PostTypes == {"regular", "pinned"}

(****************************** utils/states.py ***************************)
NoState == "none"
PostCreation == {"choosing_post_type", "choosing_payment_method", "waiting_payment",
                 "waiting_photos", "waiting_title", "waiting_condition",
                 "waiting_description", "waiting_price", "waiting_contact",
                 "confirming_post"}
\* PostCreation, in the order of the class
PostCreationOrder ==
    <<"choosing_post_type", "choosing_payment_method", "waiting_payment",
      "waiting_photos", "waiting_title", "waiting_condition",
      "waiting_description", "waiting_price", "waiting_contact", "confirming_post">>
AdminStates == {"viewing_payments", "processing_payment", "receipt_waiting_file",
                "receipt_confirm_send", "broadcast_text", "broadcast_confirm",
                "viewing_stats", "user_management", "user_details"}

(******************************* field bag ********************************)
\* The FSM data of a user is a dict: a function whose domain is the set of
\* keys present.  Python's None is "None" for strings and 0 for payment ids.
EmptyBag == [k \in {} |-> 0]
Get(d, k, default) == IF k \in DOMAIN d THEN d[k] ELSE default
\* dict.update / FSMContext.update_data(**kwargs)
Merge(d, e) == [k \in (DOMAIN d) \cup (DOMAIN e) |-> IF k \in DOMAIN e THEN e[k] ELSE d[k]]

(********************************* texts **********************************)
\* A text message is a non-empty sequence of characters (the F.text filter
\* only passes messages whose text is non-empty).
Texts == {<<"x">>, <<" ">>, <<" ", "x", " ">>}
\* SQL NULL in a text column
NullText == <<"NULL">>

RECURSIVE LStrip(_)
LStrip(s) == IF s # <<>> /\ Head(s) = " " THEN LStrip(Tail(s)) ELSE s
RECURSIVE RStrip(_)
RStrip(s) == IF s # <<>> /\ s[Len(s)] = " " THEN RStrip(SubSeq(s, 1, Len(s) - 1)) ELSE s
\* str.strip()
Strip(s) == RStrip(LStrip(s))

(**************************** utils/validators.py *************************)
\* A title, description or contact validator that accepts every text.
AcceptsAnyText(text) == TRUE

Range(seq) == {seq[i] : i \in DOMAIN seq}
Repeat(c, n) == [i \in 1..n |-> c]

\* `not text or not text.strip()`
IsBlank(text) == Strip(text) = <<>>

\* DataValidators.validate_title: not blank, 5..100 characters after strip,
\* none of < > " '
validate_title(title) ==
    /\ ~IsBlank(title)
    /\ Len(Strip(title)) >= 5
    /\ Len(Strip(title)) <= 100
    /\ Range(Strip(title)) \cap {"<", ">", "\"", "'"} = {}

\* DataValidators.validate_description: not blank, 20..1000 characters
validate_description(description) ==
    /\ ~IsBlank(description)
    /\ Len(Strip(description)) >= 20
    /\ Len(Strip(description)) <= 1000

Digits == {"0", "1", "2", "3", "4", "5", "6", "7", "8", "9"}
DigitValue(c) ==
    CASE c = "0" -> 0 [] c = "1" -> 1 [] c = "2" -> 2 [] c = "3" -> 3 [] c = "4" -> 4
      [] c = "5" -> 5 [] c = "6" -> 6 [] c = "7" -> 7 [] c = "8" -> 8 [] c = "9" -> 9

\* re.sub(r'[^\d.,]', '', text): the characters of `keep`, in order
RECURSIVE Keep(_, _)
Keep(text, keep) ==
    IF text = <<>> THEN <<>>
    ELSE (IF Head(text) \in keep THEN <<Head(text)>> ELSE <<>>) \o Keep(Tail(text), keep)

\* str.replace(',', '.')
CommaToDot(text) == [i \in DOMAIN text |-> IF text[i] = "," THEN "." ELSE text[i]]

\* validate_price: price_text = re.sub(...).replace(',', '.')
CleanPrice(price_text) == CommaToDot(Keep(Strip(price_text), Digits \cup {".", ","}))

\* float(price_text) does not raise: digits with at most one point, and at
\* least one digit
IsFloat(text) ==
    /\ Cardinality({i \in DOMAIN text : text[i] = "."}) <= 1
    /\ \E i \in DOMAIN text : text[i] \in Digits

\* the value of the first n digits of a string of digits
RECURSIVE NumberUpTo(_, _)
NumberUpTo(digits, n) ==
    IF n = 0 THEN 0 ELSE 10 * NumberUpTo(digits, n - 1) + DigitValue(digits[n])

\* the value of a string of digits
Number(digits) == NumberUpTo(digits, Len(digits))

\* round(float(price_text), 2), in hundredths, for a text with at most two
\* decimals (every price text of the model has at most two)
Hundredths(text) ==
    LET point == IF \E i \in DOMAIN text : text[i] = "."
                 THEN CHOOSE i \in DOMAIN text : text[i] = "."
                 ELSE Len(text) + 1
        whole == SubSeq(text, 1, point - 1)
        decimals == SubSeq(text, point + 1, Len(text))
    IN 100 * Number(whole)
         + (IF Len(decimals) = 0 THEN 0
            ELSE IF Len(decimals) = 1 THEN 10 * Number(decimals)
            ELSE Number(SubSeq(decimals, 1, 2)))

\* DataValidators.validate_price: (validation.is_valid, price); the price is
\* in hundredths, 0 standing for None
validate_price(price_text) ==
    IF IsBlank(price_text) \/ ~IsFloat(CleanPrice(price_text))
    THEN [is_valid |-> FALSE, price |-> 0]
    ELSE LET price == Hundredths(CleanPrice(price_text))
         IN IF price <= 0 \/ price > 10000000 * 100
            THEN [is_valid |-> FALSE, price |-> 0]
            ELSE [is_valid |-> TRUE, price |-> price]

\* A rendering that leaves the kopecks out
FormatWholeRubles(price) ==
    LET DigitChar(d) == CHOOSE c \in Digits : DigitValue(c) = d
        RECURSIVE Grouped(_)
        Grouped(n) ==
            IF n < 10 THEN <<DigitChar(n)>>
            ELSE IF n < 1000 THEN Grouped(n \div 10) \o <<DigitChar(n % 10)>>
            ELSE Grouped(n \div 1000)
                   \o <<" ", DigitChar((n \div 100) % 10), DigitChar((n \div 10) % 10),
                         DigitChar(n % 10)>>
    IN Grouped(price \div 100)

\* PriceHelper.format_price of a price held in hundredths: f"{int(price):,}"
\* for a whole price, f"{price:,.2f}" otherwise, the commas of the grouping
\* replaced by spaces
format_price(price) ==
    LET DigitChar(d) == CHOOSE c \in Digits : DigitValue(c) = d
        RECURSIVE Grouped(_)
        Grouped(n) ==
            IF n < 10 THEN <<DigitChar(n)>>
            ELSE IF n < 1000 THEN Grouped(n \div 10) \o <<DigitChar(n % 10)>>
            ELSE Grouped(n \div 1000)
                   \o <<" ", DigitChar((n \div 100) % 10), DigitChar((n \div 10) % 10),
                         DigitChar(n % 10)>>
    IN IF price % 100 = 0
       THEN Grouped(price \div 100)
       ELSE Grouped(price \div 100)
              \o <<".", DigitChar((price \div 10) % 10), DigitChar(price % 10)>>

\* re.search(r'[\+\d\(\)\-\s]{10,}', contact)
has_phone(contact) ==
    \E i \in DOMAIN contact :
        /\ i + 9 <= Len(contact)
        /\ \A j \in i..(i + 9) : contact[j] \in Digits \cup {"+", "(", ")", "-", " "}

\* re.search(r'@\w+', contact)
has_username(contact) ==
    \E i \in DOMAIN contact :
        /\ contact[i] = "@"
        /\ i < Len(contact)
        /\ contact[i + 1] \in Digits \cup {"a", "b", "c", "d", "e", "x", "_"}

\* re.search(r'\S+@\S+\.\S+', contact)
has_email(contact) ==
    \E i, j \in DOMAIN contact :
        /\ contact[i] = "@" /\ contact[j] = "."
        /\ 1 < i /\ i + 1 < j /\ j < Len(contact)
        /\ contact[i - 1] # " " /\ contact[j + 1] # " "
        /\ \A k \in (i + 1)..(j - 1) : contact[k] # " "

\* DataValidators.validate_contact_info: not blank, 5..200 characters, and a
\* phone number, a @username or an e-mail address
validate_contact_info(contact) ==
    /\ ~IsBlank(contact)
    /\ Len(Strip(contact)) >= 5
    /\ Len(Strip(contact)) <= 200
    /\ has_phone(Strip(contact)) \/ has_username(Strip(contact)) \/ has_email(Strip(contact))

\* The texts the customer sends as title, description, price and contact:
\* for each validator an accepted text and one text per way of failing.
Titles == {<<" ", "a", "b", "c", "d", "e">>, <<"B", "a", "d", "<", "t", ">">>,
           <<"a", "b", "c", "d">>, <<" ", " ", " ", " ", " ", " ">>, Repeat("a", 101)}
Descriptions == {Repeat("d", 20), Repeat("d", 19), <<" ">>, Repeat("d", 1001)}
PriceTexts == {<<"5", "0", "0">>, <<"0">>, <<"a", "b">>, <<"1", ".", "2", ".", "3">>,
               <<" ">>, <<"1", "0", "0", "0", "0", "0", "0", "1">>}
Contacts == {<<"@", "a", "b", "c", "d">>, <<"a", "b", "c", "d", "e">>, <<"@", "a">>,
             <<" ">>, Repeat("@", 201)}

\* Price texts with at most two decimals, after a comma or a point, among
\* them a text with a space and a unit, a zero and a price over the limit
PriceInputs == {<<"1", "5", "0", "0", "0", ",", "5", "0">>,
                <<"1", "5", "0", "0", "0", ".", "5", "0">>, <<"0", ".", "0", "5">>,
                <<"0", ",", "5">>, <<"1", "0", "0", "0">>, <<"1", ",", "5">>,
                <<"1", "0", "0", "0", "0", "0", "0", "0">>,
                <<"9", "9", "9", ".", "9", "9">>,
                <<"1", "2", "3", "4", "5", "6", "7", ".", "8", "9">>, <<"7">>,
                <<"1", "2", ",", "3", "0">>, <<".", "5">>, <<"5", ".">>,
                <<"1", " ", "0", "0", "0", ",", "2", "5">>,
                <<"9", "9", "9", "9", "9", ".", "9">>,
                <<"1", "0", "0", "0", "0", "0", "0", "0", ".", "0", "1">>,
                <<"0", ",", "0", "0">>, <<"2", "5", "0", "0", " ", "r", ".">>}

\* The text of the /start command
StartText == <<"/", "s", "t", "a", "r", "t">>

\* validate_price on the price texts of the model, computed once
PriceChecked == [t \in PriceTexts \cup PriceInputs \cup {StartText} |-> validate_price(t)]

VARIABLES
    payments,     \* table payments: payment_id (1..Len) -> row
    admin_logs,   \* table admin_logs, append-only
    posts,        \* table posts
    users,        \* table users: user -> post_count
    channel,      \* the target channel: its messages, in order
    blocked,      \* the users the bot cannot write to (they blocked it)
    outbox,       \* the confirm/reject notices the bot tried to send, in order
    receipts,     \* table receipts, append-only
    fsm_state,    \* FSM storage: user -> state
    fsm_data,     \* FSM storage: user -> field bag
    chk,          \* user -> the check_payment_status handler in flight
    tasks,        \* SpecPhoto: the receive_photo handlers, in dispatch order
    reply         \* user -> the last answer the bot gave the user

vars == <<payments, admin_logs, posts, users, channel, blocked, outbox, receipts, fsm_state, fsm_data, chk, tasks, reply>>

ledger == <<payments, admin_logs, posts, users, channel, blocked, outbox, receipts>>
storage == <<fsm_state, fsm_data>>

PaymentIds == 1..Len(payments)
\* Ids a callback may carry: every existing payment and one that does not exist.
PaymentRefs == 1..(Len(payments) + 1)

(*************************** database/operations.py ***********************)
\* PaymentOperations.create_payment: INSERT ... status = PENDING
create_payment(ps, user_id, amount, method) ==
    Append(ps, [user_id |-> user_id, amount |-> amount, method |-> method,
                status |-> PENDING, confirmed_by |-> 0, rejection_reason |-> NullText,
                post_id |-> 0])

\* PaymentOperations.confirm_payment: UPDATE ... WHERE payment_id = $3
\* (no condition on the current status; an id matching no row updates nothing)
confirm_payment(ps, payment_id, admin_id) ==
    [p \in DOMAIN ps |->
        IF p = payment_id
        THEN [ps[p] EXCEPT !.status = CONFIRMED, !.confirmed_by = admin_id]
        ELSE ps[p]]

\* PaymentOperations.reject_payment: UPDATE ... WHERE payment_id = $4
reject_payment(ps, payment_id, admin_id, reason) ==
    [p \in DOMAIN ps |->
        IF p = payment_id
        THEN [ps[p] EXCEPT !.status = REJECTED, !.confirmed_by = admin_id,
                           !.rejection_reason = reason]
        ELSE ps[p]]

\* PaymentOperations.update_payment_status: UPDATE payments SET status = $1
update_payment_status(ps, payment_id, status) ==
    [p \in DOMAIN ps |->
        IF p = payment_id THEN [ps[p] EXCEPT !.status = status] ELSE ps[p]]

\* The value confirm_payment, reject_payment and update_payment_status
\* return: conn.execute raises nothing when the UPDATE matches no row, and
\* the next statement is `return True`.
update_returns(ps, payment_id) == TRUE

\* A payment list that leaves out the WHERE clause
EveryPayment(ps) == [p \in 1..Len(ps) |-> p]

\* PaymentOperations.get_pending_payments: SELECT ... WHERE status = CHECKING
\* ORDER BY created_at ASC, as the list of payment ids.  created_at is the
\* time of the INSERT, so the rows of the table are in created_at order.
get_pending_payments(ps) ==
    SelectSeq([p \in 1..Len(ps) |-> p], LAMBDA p : ps[p].status = CHECKING)

\* AdminOperations.log_admin_action
log_admin_action(logs, admin_id, action, target_payment_id) ==
    Append(logs, [admin_id |-> admin_id, action |-> action,
                  target_payment_id |-> target_payment_id])

\* PriceHelper.get_post_price
get_post_price(post_type) ==
    IF post_type = "pinned" THEN PINNED_POST_PRICE ELSE REGULAR_POST_PRICE

(************************* services/notification.py ***********************)
\* A derivation that never answers "pinned"
AlwaysRegular(amount) == "regular"

\* The post type derived from the amount paid, in the confirmation notice
\* and in continue_post_creation (handlers/callback.py)
post_type_of_amount(amount) ==
    IF amount = PINNED_POST_PRICE THEN "pinned" ELSE "regular"

\* bot.send_message to a user about a payment: Telegram refuses the message
\* (the call raises) when the user has blocked the bot.
send_message(box, bl, chat_id, kind, payment_id, post_type) ==
    Append(box, [chat_id |-> chat_id, kind |-> kind, payment_id |-> payment_id,
                 post_type |-> post_type, delivered |-> chat_id \notin bl])

\* A notifier without the try/except around its body
NotifyUncaught(ps, box, bl, payment_id) ==
    IF payment_id \notin DOMAIN ps
    THEN [ok |-> FALSE, raised |-> FALSE, outbox |-> box]
    ELSE [ok |-> ps[payment_id].user_id \notin bl,
          raised |-> ps[payment_id].user_id \in bl,
          outbox |-> send_message(box, bl, ps[payment_id].user_id, "confirmed", payment_id,
                                  post_type_of_amount(ps[payment_id].amount))]

\* NotificationService.notify_payment_confirmed_with_post_creation: the
\* returned flag, whether an exception leaves the method, and the outbox.
notify_payment_confirmed_with_post_creation(ps, box, bl, payment_id) ==
    IF payment_id \notin DOMAIN ps
    THEN [ok |-> FALSE, raised |-> FALSE, outbox |-> box]
    ELSE [ok |-> ps[payment_id].user_id \notin bl,
          raised |-> FALSE,
          outbox |-> send_message(box, bl, ps[payment_id].user_id, "confirmed", payment_id,
                                  post_type_of_amount(ps[payment_id].amount))]

\* NotificationService.notify_payment_rejected
notify_payment_rejected(ps, box, bl, payment_id) ==
    IF payment_id \notin DOMAIN ps
    THEN [ok |-> FALSE, raised |-> FALSE, outbox |-> box]
    ELSE [ok |-> ps[payment_id].user_id \notin bl,
          raised |-> FALSE,
          outbox |-> send_message(box, bl, ps[payment_id].user_id, "rejected", payment_id,
                                  "None")]

\* What bot.send_message does for one recipient of a broadcast: it returns,
\* or raises an error whose text the loop looks at.
SendOutcomes == {"ok", "blocked by the user", "chat not found", "error"}

NoStats == [total |-> 0, sent |-> 0, failed |-> 0, blocked |-> 0, attempts |-> <<>>]

\* The for loop of broadcast_message from recipient k on; `attempts` are the
\* send_message calls made.
RECURSIVE BroadcastFrom(_, _, _, _)
BroadcastFrom(user_ids, outcome, k, stats) ==
    IF k > Len(user_ids)
    THEN stats
    ELSE LET o == outcome[user_ids[k]]
             tried == [stats EXCEPT !.attempts =
                          Append(@, [chat_id |-> user_ids[k], kind |-> "broadcast",
                                     payment_id |-> 0, post_type |-> "None",
                                     delivered |-> o = "ok"])]
         IN BroadcastFrom(user_ids, outcome, k + 1,
                CASE o = "ok" -> [tried EXCEPT !.sent = @ + 1]
                  [] o \in {"blocked by the user", "chat not found"} ->
                         [tried EXCEPT !.blocked = @ + 1]
                  [] OTHER -> [tried EXCEPT !.failed = @ + 1])

\* A loop that the first failing send ends
RECURSIVE AbortingFrom(_, _, _, _)
AbortingFrom(user_ids, outcome, k, stats) ==
    IF k > Len(user_ids)
    THEN stats
    ELSE LET o == outcome[user_ids[k]]
             tried == [stats EXCEPT !.attempts =
                          Append(@, [chat_id |-> user_ids[k], kind |-> "broadcast",
                                     payment_id |-> 0, post_type |-> "None",
                                     delivered |-> o = "ok"])]
         IN IF o = "ok"
            THEN AbortingFrom(user_ids, outcome, k + 1, [tried EXCEPT !.sent = @ + 1])
            ELSE [tried EXCEPT !.failed = @ + 1]

BroadcastAborting(user_ids, outcome) ==
    AbortingFrom(user_ids, outcome, 1, [NoStats EXCEPT !.total = Len(user_ids)])

\* NotificationService.broadcast_message.  With no recipient the success
\* rate of the report divides by zero, and the outer except returns zeros.
broadcast_message(user_ids, outcome) ==
    IF Len(user_ids) = 0
    THEN NoStats
    ELSE BroadcastFrom(user_ids, outcome, 1, [NoStats EXCEPT !.total = Len(user_ids)])

(******************************** Init ************************************)
IdleChk == [pc |-> "idle", payment_id |-> 0]
NoReply == [kind |-> "none", total |-> 0, remaining |-> 0]

Init ==
    /\ payments = <<>>
    /\ admin_logs = <<>>
    /\ posts = <<>>
    /\ users = [u \in Users |-> 0]
    /\ channel = <<>>
    /\ blocked = {}
    /\ outbox = <<>>
    /\ receipts = <<>>
    /\ fsm_state = [u \in Users |-> NoState]
    /\ fsm_data = [u \in Users |-> EmptyBag]
    /\ chk = [u \in Users |-> IdleChk]
    /\ tasks = <<>>
    /\ reply = [u \in Users |-> NoReply]


(**************************** shared handler parts ************************)
\* An identity check that lets every user through.
EveryoneIsAdmin(u) == u \in Users

\* `callback.from_user.id != settings.ADMIN_ID` -> "access denied", return
IsAdmin(u) == u = ADMIN_ID

\* state.clear(): no state, empty bag
Cleared(u) ==
    /\ fsm_state' = [fsm_state EXCEPT ![u] = NoState]
    /\ fsm_data' = [fsm_data EXCEPT ![u] = EmptyBag]

SetState(u, s) == fsm_state' = [fsm_state EXCEPT ![u] = s]
UpdateData(u, e) == fsm_data' = [fsm_data EXCEPT ![u] = Merge(fsm_data[u], e)]

\* The answer a handler sends to the user: "other" for every text the
\* properties do not tell apart.
Answer(kind, total, remaining) == [kind |-> kind, total |-> total, remaining |-> remaining]
Answers(u, kind) == reply' = [reply EXCEPT ![u] = Answer(kind, 0, 0)]

\* A handler that only answers the user: nothing stored changes.
OnlyAnswers(u) ==
    /\ Answers(u, "other")
    /\ UNCHANGED <<ledger, fsm_state, fsm_data, chk, tasks>>

\* message.answer(validation.error_message); return
InvalidInput(u) ==
    /\ Answers(u, "invalid")
    /\ UNCHANGED <<ledger, fsm_state, fsm_data, chk, tasks>>

\* "access denied": the answer to a non-admin, and nothing else.
Denied(u) ==
    /\ Answers(u, "denied")
    /\ UNCHANGED <<ledger, fsm_state, fsm_data, chk, tasks>>

(****************************** handlers/admin.py *************************)
\* admin_payments: the list of payments on review
admin_payments(u) ==
    IF ~IsAdmin(u)
    THEN Denied(u)
    ELSE LET pending_payments == get_pending_payments(payments)
         IN /\ SetState(u, "viewing_payments")
            \* one "moderate_payment:<id>" button per payment of the list
            /\ reply' = [reply EXCEPT ![u] =
                             [kind |-> "payments", total |-> Len(pending_payments),
                              remaining |-> 0, list |-> pending_payments]]
            /\ UNCHANGED <<ledger, fsm_data, chk, tasks>>

\* moderate_payment: open one payment for review
moderate_payment(u, payment_id) ==
    IF ~IsAdmin(u)
    THEN Denied(u)
    ELSE IF payment_id \notin PaymentIds
    THEN OnlyAnswers(u)
    ELSE /\ UpdateData(u, [current_payment_id |-> payment_id])
         /\ SetState(u, "processing_payment")
         /\ Answers(u, "other")
         /\ UNCHANGED <<ledger, chk, tasks>>

\* confirm_payment (callback "confirm_payment:<id>")
admin_confirm_payment(u, payment_id) ==
    IF ~IsAdmin(u)
    THEN Denied(u)
    ELSE IF ~update_returns(payments, payment_id)
    THEN OnlyAnswers(u)
    ELSE LET confirmed == confirm_payment(payments, payment_id, u)
             note == notify_payment_confirmed_with_post_creation(
                         confirmed, outbox, blocked, payment_id)
         IN /\ payments' = confirmed
            /\ outbox' = note.outbox
               \* payment = get_payment(id); float(payment['amount']) raises on a
               \* missing row, before the log entry is written
            /\ admin_logs' = IF payment_id \in PaymentIds /\ ~note.raised
                             THEN log_admin_action(admin_logs, u, "payment_confirmed",
                                                   payment_id)
                             ELSE admin_logs
            /\ Answers(u, "other")
            /\ UNCHANGED <<posts, users, channel, blocked, receipts, storage, chk, tasks>>

\* reject_payment_start (callback "reject_payment:<id>")
reject_payment_start(u, payment_id) ==
    IF ~IsAdmin(u)
    THEN Denied(u)
    ELSE /\ UpdateData(u, [rejecting_payment_id |-> payment_id])
         /\ Answers(u, "other")
         /\ UNCHANGED <<ledger, fsm_state, chk, tasks>>

\* reject_payment_reason (a text message in AdminStates.processing_payment)
reject_payment_reason(u, text) ==
    /\ fsm_state[u] = "processing_payment"
    /\ LET payment_id == Get(fsm_data[u], "rejecting_payment_id", 0)
           reason == Strip(text)
           rejected == reject_payment(payments, payment_id, u, reason)
           note == notify_payment_rejected(rejected, outbox, blocked, payment_id)
       IN IF ~IsAdmin(u)
          THEN Denied(u)
          ELSE IF payment_id = 0
          THEN OnlyAnswers(u)
          ELSE IF ~update_returns(payments, payment_id)
          THEN /\ Cleared(u)
               /\ Answers(u, "other")
               /\ UNCHANGED <<ledger, chk, tasks>>
          ELSE /\ payments' = rejected
               /\ outbox' = note.outbox
               /\ IF note.raised
                  THEN UNCHANGED <<admin_logs, storage>>
                  ELSE /\ admin_logs' = log_admin_action(admin_logs, u, "payment_rejected",
                                                         payment_id)
                       /\ Cleared(u)
               /\ Answers(u, "other")
               /\ UNCHANGED <<posts, users, channel, blocked, receipts, chk, tasks>>

\* broadcast_text_received (a text message in AdminStates.broadcast_text)
broadcast_text_received(u, text) ==
    /\ fsm_state[u] = "broadcast_text"
    /\ IF ~IsAdmin(u)
       THEN Denied(u)
       ELSE /\ UpdateData(u, [broadcast_text |-> Strip(text)])
            /\ SetState(u, "broadcast_confirm")
            /\ Answers(u, "other")
            /\ UNCHANGED <<ledger, chk, tasks>>

\* wrong_admin_input (any other text message in an AdminStates state)
wrong_admin_input(u) ==
    /\ fsm_state[u] \in AdminStates
    /\ IF IsAdmin(u)
       THEN OnlyAnswers(u)
       ELSE UNCHANGED vars

\* admin_broadcast_start
admin_broadcast_start(u) ==
    IF ~IsAdmin(u)
    THEN Denied(u)
    ELSE /\ SetState(u, "broadcast_text")
         /\ Answers(u, "other")
         /\ UNCHANGED <<ledger, fsm_data, chk, tasks>>

\* confirm_broadcast (callback "confirm_broadcast" in broadcast_confirm);
\* user_ids is what get_all_users returns, outcome what the sends do.
confirm_broadcast(u, user_ids, outcome) ==
    /\ fsm_state[u] = "broadcast_confirm"
    /\ IF ~IsAdmin(u)
       THEN Denied(u)
       ELSE IF Get(fsm_data[u], "broadcast_text", <<>>) = <<>>
       THEN OnlyAnswers(u)
       ELSE LET stats == broadcast_message(user_ids, outcome)
            IN /\ Cleared(u)
               /\ outbox' = outbox \o stats.attempts
               /\ admin_logs' = log_admin_action(admin_logs, u, "broadcast_sent", 0)
               /\ reply' = [reply EXCEPT ![u] =
                                [kind |-> "broadcast", total |-> stats.total,
                                 remaining |-> 0, sent |-> stats.sent,
                                 blocked |-> stats.blocked, failed |-> stats.failed]]
               /\ UNCHANGED <<payments, posts, users, channel, blocked, receipts, chk, tasks>>

\* cancel_broadcast (callback "cancel_broadcast" in broadcast_confirm)
cancel_broadcast(u) ==
    /\ fsm_state[u] = "broadcast_confirm"
    /\ Cleared(u)
    /\ UNCHANGED <<ledger, chk, tasks>> /\ Answers(u, "other")

\* prepare_send_receipt (callback "send_receipt:<id>"); a payment that has a
\* receipt (payment_has_receipt) is refused
prepare_send_receipt(u, payment_id) ==
    IF ~IsAdmin(u)
    THEN Denied(u)
    ELSE IF payment_id \notin PaymentIds
    THEN OnlyAnswers(u)
    ELSE IF \E r \in DOMAIN receipts : receipts[r].payment_id = payment_id
    THEN OnlyAnswers(u)
    ELSE /\ UpdateData(u, [receipt_payment_id |-> payment_id,
                           receipt_user_id |-> payments[payment_id].user_id])
         /\ SetState(u, "receipt_waiting_file")
         /\ Answers(u, "other")
         /\ UNCHANGED <<ledger, chk, tasks>>

\* A receipt handler that stores the receipt whatever became of the sends
ReceiptStoredAnyway(u, primary, fallback) ==
    /\ fsm_state[u] = "receipt_waiting_file"
    /\ "receipt_payment_id" \in DOMAIN fsm_data[u]
    /\ outbox' = Append(outbox, [chat_id |-> fsm_data[u].receipt_user_id, kind |-> "receipt",
                                 payment_id |-> fsm_data[u].receipt_payment_id,
                                 post_type |-> "None", delivered |-> primary])
    /\ receipts' = Append(receipts, [payment_id |-> fsm_data[u].receipt_payment_id,
                                     user_id |-> fsm_data[u].receipt_user_id, admin_id |-> u])
    /\ admin_logs' = log_admin_action(admin_logs, u, "receipt_sent",
                                      fsm_data[u].receipt_payment_id)
    /\ fsm_state' = [fsm_state EXCEPT ![u] = NoState]
    /\ fsm_data' = [fsm_data EXCEPT ![u] = EmptyBag]
    /\ reply' = [reply EXCEPT ![u] = [kind |-> "other", total |-> 0, remaining |-> 0]]
    /\ UNCHANGED <<payments, posts, users, channel, blocked, chk, tasks>>

\* handle_receipt_file (a document or photo in receipt_waiting_file).  The
\* file is sent by its file_id; when that raises, it is downloaded and sent
\* once more (`fallback`: the download and the second send both work).  A
\* user who blocked the bot receives neither.  An exception of the second
\* attempt, like a missing payment row, reaches the outer except: an error
\* answer and state.clear().
handle_receipt_file(u, primary, fallback) ==
    /\ fsm_state[u] = "receipt_waiting_file"
    /\ IF ~IsAdmin(u)
       THEN /\ Cleared(u)
            /\ UNCHANGED <<ledger, chk, tasks, reply>>
       ELSE LET payment_id == Get(fsm_data[u], "receipt_payment_id", 0)
                user_id == Get(fsm_data[u], "receipt_user_id", 0)
                attempt(ok) == [chat_id |-> user_id, kind |-> "receipt",
                                payment_id |-> payment_id, post_type |-> "None",
                                delivered |-> ok /\ user_id \notin blocked]
                first == attempt(primary)
                second == attempt(fallback)
            IN IF payment_id = 0 \/ user_id = 0 \/ payment_id \notin PaymentIds
               THEN /\ Cleared(u)
                    /\ Answers(u, "error")
                    /\ UNCHANGED <<ledger, chk, tasks>>
               ELSE /\ outbox' = IF first.delivered THEN Append(outbox, first)
                                 ELSE outbox \o <<first, second>>
                    /\ IF first.delivered \/ second.delivered
                       THEN /\ receipts' = Append(receipts,
                                               [payment_id |-> payment_id,
                                                user_id |-> user_id, admin_id |-> u])
                            /\ admin_logs' = log_admin_action(admin_logs, u, "receipt_sent",
                                                              payment_id)
                            /\ Answers(u, "other")
                       ELSE /\ UNCHANGED <<receipts, admin_logs>>
                            /\ Answers(u, "error")
                    /\ Cleared(u)
                    /\ UNCHANGED <<payments, posts, users, channel, blocked, chk, tasks>>


(***************************** handlers/start.py **************************)
\* back_to_main_handler (callback "back_to_main", any state)
back_to_main_handler(u) ==
    /\ Cleared(u)
    /\ UNCHANGED <<ledger, chk, tasks>> /\ Answers(u, "other")

\* start_handler (the /start command): state.clear(), then the welcome text
start_handler(u) ==
    /\ Cleared(u)
    /\ UNCHANGED <<ledger, chk, tasks>> /\ Answers(u, "other")

(**************************** handlers/payment.py *************************)
\* cancel_payment (callback "cancel_payment", any state)
cancel_payment(u) ==
    /\ Cleared(u)
    /\ UNCHANGED <<ledger, chk, tasks>> /\ Answers(u, "other")

\* create_post_start (callback "create_post", any state)
create_post_start(u) ==
    /\ SetState(u, "choosing_post_type")
    /\ UNCHANGED <<ledger, fsm_data, chk, tasks>> /\ Answers(u, "other")

\* back_to_post_type (callback "back_to_post_type", any state)
back_to_post_type(u) ==
    /\ SetState(u, "choosing_post_type")
    /\ UNCHANGED <<ledger, fsm_data, chk, tasks>> /\ Answers(u, "other")

\* payment_method_selected (callback "payment:sbp" in choosing_payment_method)
payment_method_selected(u) ==
    /\ fsm_state[u] = "choosing_payment_method"
    /\ LET price == get_post_price(Get(fsm_data[u], "post_type", "None"))
           payment_id == Len(payments) + 1
       IN /\ payments' = create_payment(payments, u, price, "sbp")
          /\ UpdateData(u, [payment_method |-> "sbp", payment_id |-> payment_id,
                            price |-> price])
          /\ SetState(u, "waiting_payment")
    /\ UNCHANGED <<admin_logs, posts, users, channel, blocked, outbox, receipts, chk, tasks>>
    /\ Answers(u, "other")

\* check_payment_status (callback "check_payment:<id>" in waiting_payment),
\* up to and including its read of the payment row: every branch but the
\* pending one ends here.
check_payment_read(u, payment_id) ==
    /\ fsm_state[u] = "waiting_payment"
    /\ chk[u].pc = "idle"
    /\ IF payment_id \notin PaymentIds
       THEN OnlyAnswers(u)
       ELSE LET payment == payments[payment_id]
            IN IF payment.user_id # u
               THEN OnlyAnswers(u)
               ELSE CASE payment.status = PENDING ->
                           \* goes on to update_payment_status(id, CHECKING)
                           /\ chk' = [chk EXCEPT ![u] = [pc |-> "write", payment_id |-> payment_id]]
                           /\ UNCHANGED <<ledger, storage, tasks>> /\ Answers(u, "other")
                      [] payment.status = CONFIRMED ->
                           /\ UpdateData(u, [payment_id |-> payment_id,
                                             price |-> Get(fsm_data[u], "price", 0),
                                             post_type |-> Get(fsm_data[u], "post_type", "None"),
                                             photos |-> <<>>])
                           /\ SetState(u, "waiting_photos")
                           /\ UNCHANGED <<ledger, chk, tasks>> /\ Answers(u, "other")
                      [] OTHER -> OnlyAnswers(u)

\* check_payment_status, the pending branch after the read: the status is
\* written without looking at the row again.
check_payment_write(u) ==
    /\ chk[u].pc = "write"
    /\ payments' = update_payment_status(payments, chk[u].payment_id, CHECKING)
    /\ chk' = [chk EXCEPT ![u] = IdleChk]
    /\ UNCHANGED <<admin_logs, posts, users, channel, blocked, outbox, receipts, storage, tasks>>
    /\ Answers(u, "other")

(**************************** handlers/callback.py ************************)
\* Checks that leave out the owner of the payment
ContinueForAnyone(u, payment_id) ==
    /\ payment_id \in PaymentIds
    /\ payments[payment_id].status = CONFIRMED

\* the three checks of continue_post_creation: the payment exists, belongs
\* to the caller and is confirmed
continue_allowed(u, payment_id) ==
    /\ payment_id \in PaymentIds
    /\ payments[payment_id].user_id = u
    /\ payments[payment_id].status = CONFIRMED

\* A continue that is only taken from a cleared conversation
ContinueFromCleared(u, payment_id) ==
    /\ fsm_state[u] = NoState
    /\ IF ~continue_allowed(u, payment_id)
       THEN OnlyAnswers(u)
       ELSE /\ SetState(u, "waiting_photos")
            /\ UpdateData(u, [payment_id |-> payment_id,
                              post_type |-> post_type_of_amount(payments[payment_id].amount),
                              price |-> payments[payment_id].amount,
                              photos |-> <<>>])
            /\ UNCHANGED <<ledger, chk, tasks>> /\ Answers(u, "other")

\* continue_post_creation (callback "continue_post:<id>", any state)
continue_post_creation(u, payment_id) ==
    /\ IF ~continue_allowed(u, payment_id)
       THEN OnlyAnswers(u)
       ELSE /\ SetState(u, "waiting_photos")
            /\ UpdateData(u, [payment_id |-> payment_id,
                              post_type |-> post_type_of_amount(payments[payment_id].amount),
                              price |-> payments[payment_id].amount,
                              photos |-> <<>>])
            /\ UNCHANGED <<ledger, chk, tasks>> /\ Answers(u, "other")


(************************** handlers/post_creation.py *********************)
\* data.get('is_editing') is truthy
IsEditing(d) == Get(d, "is_editing", FALSE)

\* A process_photos_complete without the "next" branch: below the maximum
\* it asks for more photos.
PhotosBranchWithoutNext(total) ==
    IF total >= MAX_PHOTOS THEN "max" ELSE "more"

\* process_photos_complete: which of its three branches a total takes
PhotosBranch(total) ==
    IF total >= MAX_PHOTOS THEN "max"
    ELSE IF total >= MIN_PHOTOS THEN "next"
    ELSE "more"

\* process_photos_complete: remaining = settings.MIN_PHOTOS - total_photos
Remaining(total) == MIN_PHOTOS - total

\* What process_photos_complete answers for a total: the title prompt (or the
\* preview when editing), the "next" button, or the request for more photos.
PhotosReply(total, editing) ==
    [kind |-> CASE PhotosBranch(total) = "max" -> (IF editing THEN "preview" ELSE "ask_title")
                [] PhotosBranch(total) = "next" -> "offer_next"
                [] OTHER -> "need_more",
     total |-> total,
     remaining |-> IF PhotosBranch(total) = "more" THEN Remaining(total) ELSE 0]

\* The state process_photos_complete leaves: waiting_title at the maximum
\* (confirming_post when editing), otherwise the state is not written.
PhotosNextState(total, editing, current) ==
    IF PhotosBranch(total) = "max"
    THEN (IF editing THEN "confirming_post" ELSE "waiting_title")
    ELSE current

\* receive_photo for a photo outside a media group, followed by its
\* process_photos_complete, with no other handler of the user in between.
receive_photo_single(u) ==
    /\ fsm_state[u] = "waiting_photos"
    /\ LET photos == Append(Get(fsm_data[u], "photos", <<>>),
                            Len(Get(fsm_data[u], "photos", <<>>)) + 1)
           total == Len(photos)
           editing == IsEditing(fsm_data[u])
           flags == [photos |-> photos, processing_media_group |-> FALSE,
                     media_group_id |-> "None"]
       IN /\ fsm_data' = [fsm_data EXCEPT ![u] =
                IF PhotosBranch(total) = "max" /\ editing
                THEN Merge(Merge(@, flags), [is_editing |-> FALSE])
                ELSE Merge(@, flags)]
          /\ SetState(u, PhotosNextState(total, editing, fsm_state[u]))
          /\ reply' = [reply EXCEPT ![u] = PhotosReply(total, editing)]
    /\ UNCHANGED <<ledger, chk, tasks>>

\* back_to_preview_handler (callback "back_to_preview"; the handler has no
\* state filter) and back_to_preview_from_message
BackToPreview(u) ==
    /\ UpdateData(u, [is_editing |-> FALSE])
    /\ SetState(u, "confirming_post")

\* A preview dictionary with only the fields the bag holds
PreviewByIndex(d) ==
    [k \in (DOMAIN d) \cap {"title", "condition", "description", "price",
                            "contact_info", "post_type", "photos"} |-> d[k]]

\* The dictionary back_to_preview_handler hands to format_post_info: every
\* field read with data.get and a default
PreviewData(d) ==
    [title |-> Get(d, "title", <<>>), condition |-> Get(d, "condition", <<>>),
     description |-> Get(d, "description", <<>>), price |-> Get(d, "price", 0),
     contact_info |-> Get(d, "contact_info", <<>>),
     post_type |-> Get(d, "post_type", <<>>), photos |-> Get(d, "photos", <<>>)]

\* MessageFormatter.format_post_info reads post_data[...] for these keys:
\* a missing one raises KeyError
format_post_info(post_data) ==
    {"title", "condition", "description", "price", "contact_info", "post_type"}
        \subseteq DOMAIN post_data

\* The state is stored before the preview is built; an exception while
\* building it is caught and answered with an error.
back_to_preview_handler(u) ==
    /\ BackToPreview(u)
    /\ UNCHANGED <<ledger, chk, tasks>>
    /\ Answers(u, IF format_post_info(PreviewData(Merge(fsm_data[u], [is_editing |-> FALSE])))
                  THEN "other" ELSE "error")

\* default_message_handler (a message under StateFilter(None)): the menu
default_message_handler(u) ==
    /\ fsm_state[u] = NoState
    /\ OnlyAnswers(u)

\* photos_next_step_handler (callback "photos_next_step" in waiting_photos)
photos_next_step_handler(u) ==
    /\ fsm_state[u] = "waiting_photos"
    /\ IF Len(Get(fsm_data[u], "photos", <<>>)) < MIN_PHOTOS
       THEN OnlyAnswers(u)
       ELSE /\ IF IsEditing(fsm_data[u])
               THEN BackToPreview(u)
               ELSE SetState(u, "waiting_title") /\ UNCHANGED fsm_data
            /\ UNCHANGED <<ledger, chk, tasks>> /\ Answers(u, "other")

\* A post_type_selected without the administrator's branch
PostTypeAlwaysCharged(u, post_type) ==
    /\ fsm_state[u] = "choosing_post_type"
    /\ UpdateData(u, [post_type |-> post_type])
    /\ SetState(u, "choosing_payment_method")
    /\ UNCHANGED <<ledger, chk, tasks>> /\ Answers(u, "other")

\* post_type_selected (callback "post_type:<t>" in choosing_post_type)
post_type_selected(u, post_type) ==
    /\ fsm_state[u] = "choosing_post_type"
    /\ IF IsAdmin(u)
       THEN \* the administrator's payment is created and confirmed at once
            LET price == get_post_price(post_type)
                payment_id == Len(payments) + 1
            IN /\ payments' = confirm_payment(
                                 create_payment(payments, u, price, "admin_auto"),
                                 payment_id, u)
               /\ UpdateData(u, [post_type |-> post_type, payment_id |-> payment_id,
                                 price |-> price])
               /\ SetState(u, "waiting_photos")
               /\ UNCHANGED <<admin_logs, posts, users, channel, blocked, outbox, receipts, chk, tasks>>
               /\ Answers(u, "other")
       ELSE /\ UpdateData(u, [post_type |-> post_type])
            /\ SetState(u, "choosing_payment_method")
            /\ UNCHANGED <<ledger, chk, tasks>> /\ Answers(u, "other")

\* A field step that returns to the preview with is_editing still set
FieldStepKeepsEditing(u, name, current, key, next, valid) ==
    /\ fsm_state[u] = current
    /\ IF ~valid
       THEN /\ reply' = [reply EXCEPT ![u] = [kind |-> "invalid", total |-> 0, remaining |-> 0]]
            /\ UNCHANGED <<payments, admin_logs, posts, users, channel, blocked, outbox, receipts,
                           fsm_state, fsm_data, chk, tasks>>
       ELSE /\ fsm_data' = [fsm_data EXCEPT ![u] = Merge(@, key)]
            /\ fsm_state' = [fsm_state EXCEPT ![u] =
                                 IF Get(fsm_data[u], "is_editing", FALSE)
                                 THEN "confirming_post" ELSE next]
            /\ reply' = [reply EXCEPT ![u] = [kind |-> "other", total |-> 0, remaining |-> 0]]
            /\ UNCHANGED <<payments, admin_logs, posts, users, channel, blocked, outbox, receipts,
                           chk, tasks>>

\* receive_title, condition_selected, receive_description, receive_price:
\* a valid input is stored under `key`; then back to the preview when
\* editing, else on to `next`.  An invalid input is answered with an error.
FieldStep(u, name, current, key, next, valid) ==
    /\ fsm_state[u] = current
    /\ IF ~valid
       THEN InvalidInput(u)
       ELSE /\ IF IsEditing(fsm_data[u])
               THEN /\ fsm_data' = [fsm_data EXCEPT ![u] =
                                       Merge(Merge(@, key), [is_editing |-> FALSE])]
                    /\ SetState(u, "confirming_post")
               ELSE /\ UpdateData(u, key)
                    /\ SetState(u, next)
            /\ UNCHANGED <<ledger, chk, tasks>> /\ Answers(u, "other")

receive_title(u, text) ==
    FieldStep(u, "receive_title", "waiting_title", [title |-> Strip(text)],
              "waiting_condition", validate_title(Strip(text)))
condition_selected(u) ==
    FieldStep(u, "condition_selected", "waiting_condition", [condition |-> "new"],
              "waiting_description", TRUE)
receive_description(u, text) ==
    FieldStep(u, "receive_description", "waiting_description",
              [description |-> Strip(text)], "waiting_price",
              validate_description(Strip(text)))
\* receive_price validates message.text as it came and stores the parsed price
receive_price(u, text) ==
    FieldStep(u, "receive_price", "waiting_price", [price |-> PriceChecked[text].price],
              "waiting_contact", PriceChecked[text].is_valid)
\* receive_contact ends in show_post_preview, which sets confirming_post
receive_contact(u, text) ==
    FieldStep(u, "receive_contact", "waiting_contact", [contact_info |-> Strip(text)],
              "confirming_post", validate_contact_info(Strip(text)))

\* wrong_photo_type (a message without a photo in waiting_photos)
wrong_photo_type(u) ==
    /\ fsm_state[u] = "waiting_photos"
    /\ OnlyAnswers(u)

\* The user sends the text "/start".  register_handlers includes the
\* post_creation router before the start router, and the first handler whose
\* filters pass takes the message: in a waiting_* state that is the state's
\* own message handler, in an AdminStates state a text handler of the admin
\* router (included first), and start_handler is reached from the other
\* states only.
dispatch_start(u) ==
    /\ CASE fsm_state[u] = "processing_payment" -> reject_payment_reason(u, StartText)
         [] fsm_state[u] = "broadcast_text" -> broadcast_text_received(u, StartText)
         [] fsm_state[u] \in AdminStates \ {"processing_payment", "broadcast_text"} ->
                wrong_admin_input(u)
         [] fsm_state[u] = "waiting_photos" -> wrong_photo_type(u)
         [] fsm_state[u] = "waiting_title" -> receive_title(u, StartText)
         [] fsm_state[u] = "waiting_description" -> receive_description(u, StartText)
         [] fsm_state[u] = "waiting_price" -> receive_price(u, StartText)
         [] fsm_state[u] = "waiting_contact" -> receive_contact(u, StartText)
         [] OTHER -> start_handler(u)

\* The keys confirm_post reads with data[...]: a missing one raises KeyError.
PostKeys == {"photos", "title", "condition", "description", "price", "contact_info", "post_type"}

\* PostOperations.create_post: INSERT ... status = DRAFT
create_post(ps, user_id, d) ==
    Append(ps, [user_id |-> user_id, photos |-> d["photos"], post_type |-> d["post_type"],
                status |-> "draft", published |-> FALSE, message_id |-> 0])

\* PostOperations.publish_post: UPDATE posts SET status, message_id, published_at
publish_post(ps, post_id, message_id) ==
    [p \in DOMAIN ps |->
        IF p = post_id
        THEN [ps[p] EXCEPT !.status = "published", !.published = TRUE,
                           !.message_id = message_id]
        ELSE ps[p]]

\* UserOperations.increment_post_count
increment_post_count(us, user_id) == [us EXCEPT ![user_id] = @ + 1]

\* bot.send_media_group: one channel message per photo
send_media_group(ch, photos) ==
    ch \o [k \in 1..Len(photos) |-> [file |-> photos[k], pinned |-> FALSE]]

\* bot.pin_chat_message
pin_chat_message(ch, message_id) == [ch EXCEPT ![message_id].pinned = TRUE]

\* A publish that takes the media group for sent whatever the channel says
PublishUnchecked(post, ch, sent, pin_ok) ==
    LET messages == send_media_group(ch, post.photos)
    IN [success |-> TRUE, message_id |-> Len(ch) + 1, channel |-> messages]

\* A publish in which a failing pin reaches the outer except
PublishPinFatal(post, ch, sent, pin_ok) ==
    IF post.photos = <<>> \/ ~sent
    THEN [success |-> FALSE, message_id |-> 0, channel |-> ch]
    ELSE LET messages == send_media_group(ch, post.photos)
         IN IF post.post_type = "pinned" /\ ~pin_ok
            THEN [success |-> FALSE, message_id |-> 0, channel |-> messages]
            ELSE [success |-> TRUE, message_id |-> Len(ch) + 1,
                  channel |-> IF post.post_type = "pinned"
                              THEN pin_chat_message(messages, Len(ch) + 1)
                              ELSE messages]

\* PostService.publish_post.  `sent` is whether the channel accepts the
\* media group (otherwise the send raises or returns no message), `pin_ok`
\* whether the pin call succeeds (otherwise it raises, and the inner except
\* logs a warning).  The result is the returned pair and the channel.
PostService_publish_post(post, ch, sent, pin_ok) ==
    IF post.photos = <<>> \/ ~sent
    THEN [success |-> FALSE, message_id |-> 0, channel |-> ch]
    ELSE LET messages == send_media_group(ch, post.photos)
             main_message_id == Len(ch) + 1
         IN [success |-> TRUE, message_id |-> main_message_id,
             channel |-> IF post.post_type = "pinned" /\ pin_ok
                         THEN pin_chat_message(messages, main_message_id)
                         ELSE messages]

\* confirm_post (callback "confirm_post" in confirming_post).  `committed`
\* is whether the UPDATE of PostOperations.publish_post goes through: when
\* it raises, publish_post logs the error and returns False, and confirm_post
\* does not look at the value returned.
confirm_post_commit(u, sent, pin_ok, committed) ==
    /\ fsm_state[u] = "confirming_post"
    /\ IF ~(PostKeys \subseteq DOMAIN fsm_data[u])
       THEN OnlyAnswers(u)
       ELSE LET post_id == Len(posts) + 1
                created == create_post(posts, u, fsm_data[u])
                result == PostService_publish_post(created[post_id], channel, sent, pin_ok)
            IN /\ channel' = result.channel
               /\ IF result.success
                  THEN /\ posts' = IF committed
                                   THEN publish_post(created, post_id, result.message_id)
                                   ELSE created
                       /\ users' = increment_post_count(users, u)
                       /\ Cleared(u)
                  ELSE /\ posts' = created
                       /\ UNCHANGED <<users, storage>>
               /\ UNCHANGED <<payments, admin_logs, blocked, outbox, receipts, chk, tasks>>
               /\ Answers(u, "other")

\* confirm_post with the post table answering
confirm_post(u, sent, pin_ok) == confirm_post_commit(u, sent, pin_ok, TRUE)

\* confirm_post split at its awaits.  The dispatcher runs the handlers of one
\* user concurrently: the filter passes while the state is confirming_post,
\* and the handler reads the field bag (data = await state.get_data()).
confirm_post_read(u) ==
    /\ fsm_state[u] = "confirming_post"
    /\ tasks' = Append(tasks, [user |-> u, data |-> fsm_data[u], done |-> FALSE])
    /\ UNCHANGED <<ledger, storage, chk, reply>>

\* The rest of the handler in flight, on the bag it has read: create_post,
\* publication, publish_post, increment_post_count, state.clear().
confirm_post_write(k, sent, pin_ok) ==
    /\ k \in DOMAIN tasks
    /\ ~tasks[k].done
    /\ tasks' = [tasks EXCEPT ![k].done = TRUE]
    /\ LET u == tasks[k].user
           data == tasks[k].data
       IN /\ IF ~(PostKeys \subseteq DOMAIN data)
             THEN UNCHANGED <<posts, users, channel, storage>>
             ELSE LET post_id == Len(posts) + 1
                      created == create_post(posts, u, data)
                      result == PostService_publish_post(created[post_id], channel,
                                                         sent, pin_ok)
                  IN /\ channel' = result.channel
                     /\ IF result.success
                        THEN /\ posts' = publish_post(created, post_id, result.message_id)
                             /\ users' = increment_post_count(users, u)
                             /\ Cleared(u)
                        ELSE /\ posts' = created
                             /\ UNCHANGED <<users, storage>>
          /\ Answers(u, "other")
    /\ UNCHANGED <<payments, admin_logs, blocked, outbox, receipts, chk>>

\* cancel_post (callback "cancel_post" in confirming_post)
cancel_post(u) ==
    /\ fsm_state[u] = "confirming_post"
    /\ Cleared(u)
    /\ UNCHANGED <<ledger, chk, tasks>> /\ Answers(u, "other")

\* edit_post_handler (callback "edit_post" in confirming_post)
edit_post_handler(u) ==
    /\ fsm_state[u] = "confirming_post"
    /\ UpdateData(u, [is_editing |-> TRUE])
    /\ UNCHANGED <<ledger, fsm_state, chk, tasks>> /\ Answers(u, "other")

\* edit_title_handler, edit_condition_handler, edit_description_handler,
\* edit_price_handler, edit_contact_handler (in confirming_post)
edit_field_handler(u, target) ==
    /\ fsm_state[u] = "confirming_post"
    /\ UpdateData(u, [is_editing |-> TRUE])
    /\ SetState(u, target)
    /\ UNCHANGED <<ledger, chk, tasks>> /\ Answers(u, "other")

EditTargets == {"waiting_title", "waiting_condition", "waiting_description",
                "waiting_price", "waiting_contact"}

\* edit_photos_handler (callback "edit_photos" in confirming_post)
edit_photos_handler(u) ==
    /\ fsm_state[u] = "confirming_post"
    /\ UpdateData(u, [photos |-> <<>>, is_editing |-> TRUE])
    /\ SetState(u, "waiting_photos")
    /\ UNCHANGED <<ledger, chk, tasks>> /\ Answers(u, "other")


(********************************** Spec **********************************)
\* Exploration of Spec stops once MaxLogs entries are logged, and that of
\* SpecPost once MaxPosts posts exist.
LogOpen == Len(admin_logs) < MaxLogs
PostsOpen == Len(posts) < MaxPosts
\* In SpecPost the customer sends at most MaxEvents photos beyond the minimum.
PhotosOpen(u) == Len(Get(fsm_data[u], "photos", <<>>)) < MIN_PHOTOS + MaxEvents

\* Review: the payment-moderation updates of the admin router, sent by u.
Review(u) ==
    \/ \E p \in PaymentRefs : LogOpen /\ moderate_payment(u, p)
    \/ \E p \in PaymentRefs : LogOpen /\ admin_confirm_payment(u, p)
    \/ \E p \in PaymentIds : LogOpen /\ reject_payment_start(u, p)
    \/ \E t \in Texts : LogOpen /\ reject_payment_reason(u, t)

\* Office: the other admin-only updates (payment list, broadcast, receipts).
Office(u) ==
    \/ LogOpen /\ admin_payments(u)
    \/ LogOpen /\ admin_broadcast_start(u)
    \/ \E p \in PaymentRefs : LogOpen /\ prepare_send_receipt(u, p)

\* Checkout: the conversation from "create post" to the paid-for payment.
Checkout(u) ==
    \/ LogOpen /\ create_post_start(u)
    \/ \E t \in PostTypes : LogOpen /\ Len(payments) < MaxPayments /\ post_type_selected(u, t)
    \/ LogOpen /\ Len(payments) < MaxPayments /\ payment_method_selected(u)
    \/ \E p \in PaymentRefs : LogOpen /\ check_payment_read(u, p)
    \/ LogOpen /\ check_payment_write(u)

\* The ledger and its moderation: admin-router updates from every user, and
\* the customer's checkout.
Next ==
    \/ \E u \in Users : Review(u)
    \/ \E u \in Users : Office(u)
    \/ Checkout(Customer)

Spec == Init /\ [][Next]_vars

\* Post assembly, from waiting_photos to the published post.
Assembly(u) ==
    \/ PostsOpen /\ create_post_start(u)
    \/ \E t \in PostTypes : PostsOpen /\ post_type_selected(u, t)
    \/ \E p \in PaymentRefs : PostsOpen /\ continue_post_creation(u, p)
    \/ PostsOpen /\ back_to_main_handler(u)
    \/ PostsOpen /\ cancel_payment(u)
    \/ PostsOpen /\ dispatch_start(u)
    \/ PostsOpen /\ PhotosOpen(u) /\ receive_photo_single(u)
    \/ PostsOpen /\ photos_next_step_handler(u)
    \/ PostsOpen /\ back_to_preview_handler(u)
    \/ \E t \in Titles : PostsOpen /\ receive_title(u, t)
    \/ PostsOpen /\ condition_selected(u)
    \/ \E t \in Descriptions : PostsOpen /\ receive_description(u, t)
    \/ \E t \in PriceTexts : PostsOpen /\ receive_price(u, t)
    \/ \E t \in Contacts : PostsOpen /\ receive_contact(u, t)
    \/ \E sent, pin_ok \in BOOLEAN : PostsOpen /\ confirm_post(u, sent, pin_ok)
    \/ PostsOpen /\ cancel_post(u)
    \/ PostsOpen /\ edit_post_handler(u)
    \/ \E t \in EditTargets : PostsOpen /\ edit_field_handler(u, t)
    \/ PostsOpen /\ edit_photos_handler(u)

\* SpecPost: the customer's conversation once the payment is settled.  It
\* starts at the main menu with the ledger the checkout and the review can
\* have left: no payment, or one payment of the customer, pending or
\* confirmed by the administrator (and logged).
InitPost ==
    \E t \in PostTypes, settled \in {"never paid", PENDING, CONFIRMED} :
        LET created == create_payment(<<>>, Customer, get_post_price(t), "sbp")
        IN /\ payments = CASE settled = PENDING -> created
                            [] settled = CONFIRMED -> confirm_payment(created, 1, ADMIN_ID)
                            [] OTHER -> <<>>
           /\ admin_logs = IF settled = CONFIRMED
                           THEN log_admin_action(<<>>, ADMIN_ID, "payment_confirmed", 1)
                           ELSE <<>>
           /\ posts = <<>>
           /\ users = [u \in Users |-> 0]
           /\ channel = <<>>
           /\ blocked = {}
           /\ outbox = <<>>
           /\ receipts = <<>>
           /\ fsm_state = [u \in Users |-> NoState]
           /\ fsm_data = [u \in Users |-> EmptyBag]
           /\ chk = [u \in Users |-> IdleChk]
           /\ tasks = <<>>
           /\ reply = [u \in Users |-> NoReply]

NextPost == Assembly(Customer)

SpecPost == InitPost /\ [][NextPost]_vars

\* SpecFields: the text steps of the assembly on their own.  The customer
\* has paid, stored MIN_PHOTOS photos one by one and pressed "next": the bot
\* asks for the title.
InitFields ==
    \E t \in PostTypes :
        /\ payments = confirm_payment(
                          create_payment(<<>>, Customer, get_post_price(t), "sbp"),
                          1, ADMIN_ID)
        /\ admin_logs = log_admin_action(<<>>, ADMIN_ID, "payment_confirmed", 1)
        /\ posts = <<>>
        /\ users = [u \in Users |-> 0]
        /\ channel = <<>>
        /\ blocked = {}
        /\ outbox = <<>>
        /\ receipts = <<>>
        /\ fsm_state = [u \in Users |-> IF u = Customer THEN "waiting_title" ELSE NoState]
        /\ fsm_data = [u \in Users |->
                          IF u = Customer
                          THEN [payment_id |-> 1, post_type |-> t,
                                price |-> get_post_price(t),
                                photos |-> [k \in 1..MIN_PHOTOS |-> k],
                                processing_media_group |-> FALSE,
                                media_group_id |-> "None"]
                          ELSE EmptyBag]
        /\ chk = [u \in Users |-> IdleChk]
        /\ tasks = <<>>
        /\ reply = [u \in Users |-> IF u = Customer THEN Answer("other", 0, 0) ELSE NoReply]

NextFields ==
    \/ \E t \in Titles : receive_title(Customer, t)
    \/ condition_selected(Customer)
    \/ \E t \in Descriptions : receive_description(Customer, t)
    \/ \E t \in PriceTexts : receive_price(Customer, t)
    \/ \E t \in Contacts : receive_contact(Customer, t)
    \/ edit_post_handler(Customer)
    \/ \E t \in EditTargets : edit_field_handler(Customer, t)
    \/ back_to_preview_handler(Customer)

SpecFields == InitFields /\ [][NextFields]_vars

\* SpecPrice: the text steps of SpecFields with the price texts of
\* PriceInputs.
NextPrice ==
    \/ NextFields
    \/ \E t \in PriceInputs : receive_price(Customer, t)

SpecPrice == InitFields /\ [][NextPrice]_vars

\* SpecRace: the text steps and the previews of SpecFields, and up to
\* MaxEvents confirm_post handlers of the customer in flight together.
NextRace ==
    \/ tasks = <<>> /\ NextFields
    \/ Len(tasks) < MaxEvents /\ confirm_post_read(Customer)
    \/ \E k \in 1..MaxEvents : \E sent, pin_ok \in BOOLEAN :
          confirm_post_write(k, sent, pin_ok)

SpecRace == InitFields /\ [][NextRace]_vars

\* SpecPublish: the text steps and the previews of SpecFields, and the
\* publication of the assembled post.
NextPublish ==
    \/ NextFields
    \/ \E sent, pin_ok \in BOOLEAN : PostsOpen /\ confirm_post(Customer, sent, pin_ok)

SpecPublish == InitFields /\ [][NextPublish]_vars

\* SpecCommit: SpecPublish, with a post table that may refuse the update of
\* the published post.
NextCommit ==
    \/ NextFields
    \/ \E sent, pin_ok, committed \in BOOLEAN :
          PostsOpen /\ confirm_post_commit(Customer, sent, pin_ok, committed)

SpecCommit == InitFields /\ [][NextCommit]_vars

\* SpecSelf: the customer's checkout, the administrator's own (the payment
\* of post_type_selected is confirmed on the spot), and the moderation.
NextSelf ==
    \/ Checkout(Customer)
    \/ LogOpen /\ create_post_start(ADMIN_ID)
    \/ \E t \in PostTypes :
          LogOpen /\ Len(payments) < MaxPayments /\ post_type_selected(ADMIN_ID, t)
    \/ Review(ADMIN_ID)

\* Nothing stored yet; the customer may have blocked the bot.
InitSelf ==
    /\ payments = <<>>
    /\ admin_logs = <<>>
    /\ posts = <<>>
    /\ users = [u \in Users |-> 0]
    /\ channel = <<>>
    /\ blocked \in SUBSET {Customer}
    /\ outbox = <<>>
    /\ receipts = <<>>
    /\ fsm_state = [u \in Users |-> NoState]
    /\ fsm_data = [u \in Users |-> EmptyBag]
    /\ chk = [u \in Users |-> IdleChk]
    /\ tasks = <<>>
    /\ reply = [u \in Users |-> NoReply]

SpecSelf == InitSelf /\ [][NextSelf]_vars

\* SpecRefs: the moderation with the callbacks carrying any payment id, the
\* id after the last row included, and the customer sending the admin-only
\* updates.
NextRefs ==
    \/ Checkout(Customer)
    \/ \E u \in Users : Review(u)
    \/ \E p \in PaymentRefs : LogOpen /\ reject_payment_start(ADMIN_ID, p)
    \/ Office(Customer)

SpecRefs == InitSelf /\ [][NextRefs]_vars

\* SpecReceipt: the checkout, the confirmation and the delivery of receipts;
\* the customer may have blocked the bot.
NextReceipt ==
    \/ Checkout(Customer)
    \/ \E p \in PaymentRefs : LogOpen /\ admin_confirm_payment(ADMIN_ID, p)
    \/ \E u \in Users : \E p \in PaymentRefs : LogOpen /\ prepare_send_receipt(u, p)
    \/ \E primary, fallback \in BOOLEAN :
          LogOpen /\ Len(outbox) <= MaxLogs
                  /\ handle_receipt_file(ADMIN_ID, primary, fallback)

SpecReceipt == InitSelf /\ [][NextReceipt]_vars

\* A poller that reminds whether or not a payment waits for review
CheckerAlwaysReminds ==
    /\ outbox' = send_message(outbox, blocked, ADMIN_ID, "reminder", 0, "None")
    /\ UNCHANGED <<payments, admin_logs, posts, users, channel, blocked, receipts,
                   fsm_state, fsm_data, chk, tasks, reply>>

\* One round of the payment checker: it reads the payments in review and,
\* when there is one, sends the administrator a reminder; every failure is
\* caught and logged.
check_pending_payments ==
    LET pending_payments == get_pending_payments(payments)
    IN  /\ outbox' = IF pending_payments # <<>>
                      THEN send_message(outbox, blocked, ADMIN_ID, "reminder", 0, "None")
                      ELSE outbox
        /\ UNCHANGED <<payments, admin_logs, posts, users, channel, blocked, receipts,
                       fsm_state, fsm_data, chk, tasks, reply>>

\* SpecList: the moderation list over a ledger of up to MaxListed payments,
\* the customer's in any status and the administrator's own (admin_auto,
\* confirmed); the customer asks for reviews and presses continue buttons,
\* the administrator lists, opens and confirms one payment, and the payment
\* checker sends its first reminder.
InitList ==
    \E n \in 0..MaxListed :
        \E st \in [1..n -> {PENDING, CHECKING, CONFIRMED, REJECTED, "admin_auto"}] :
            /\ payments = [p \in 1..n |->
                              IF st[p] = "admin_auto"
                              THEN [user_id |-> ADMIN_ID, amount |-> REGULAR_POST_PRICE,
                                    method |-> "admin_auto", status |-> CONFIRMED,
                                    confirmed_by |-> ADMIN_ID, rejection_reason |-> NullText,
                                    post_id |-> 0]
                              ELSE [user_id |-> Customer, amount |-> REGULAR_POST_PRICE,
                                    method |-> "sbp", status |-> st[p],
                                    confirmed_by |-> IF st[p] \in {CONFIRMED, REJECTED}
                                                     THEN ADMIN_ID ELSE 0,
                                    rejection_reason |-> IF st[p] = REJECTED
                                                         THEN <<"x">> ELSE NullText,
                                    post_id |-> 0]]
            /\ admin_logs = <<>>
            /\ posts = <<>>
            /\ users = [u \in Users |-> 0]
            /\ channel = <<>>
            /\ blocked = {}
            /\ outbox = <<>>
            /\ receipts = <<>>
            /\ fsm_state = [u \in Users |-> IF u = Customer /\ n > 0
                                              THEN "waiting_payment" ELSE NoState]
            /\ fsm_data = [u \in Users |->
                              IF u = Customer /\ n > 0
                              THEN [post_type |-> "regular", payment_method |-> "sbp",
                                    payment_id |-> n, price |-> REGULAR_POST_PRICE]
                              ELSE EmptyBag]
            /\ chk = [u \in Users |-> IdleChk]
            /\ tasks = <<>>
            /\ reply = [u \in Users |-> NoReply]

NextList ==
    \/ LogOpen /\ admin_payments(ADMIN_ID)
    \/ \E p \in PaymentRefs : LogOpen /\ moderate_payment(ADMIN_ID, p)
    \/ \E p \in PaymentRefs : admin_logs = <<>> /\ admin_confirm_payment(ADMIN_ID, p)
    \/ \E p \in PaymentRefs : LogOpen /\ check_payment_read(Customer, p)
    \/ LogOpen /\ check_payment_write(Customer)
    \/ \E p \in PaymentRefs : LogOpen /\ continue_post_creation(Customer, p)
    \/ outbox = <<>> /\ check_pending_payments

SpecList == InitList /\ [][NextList]_vars

\* SpecReject: the administrator opens payments of the ledger of SpecList
\* for review, starts rejections and sends texts.
NextReject ==
    \/ \E p \in PaymentRefs : LogOpen /\ moderate_payment(ADMIN_ID, p)
    \/ \E p \in PaymentRefs : LogOpen /\ reject_payment_start(ADMIN_ID, p)
    \/ \E t \in Texts : LogOpen /\ reject_payment_reason(ADMIN_ID, t)

SpecReject == InitList /\ [][NextReject]_vars

\* SpecOrder: the customer's checkout with its back button, the confirm of
\* the administrator, and the two callbacks that carry no state filter.
NextOrder ==
    \/ Checkout(Customer)
    \/ LogOpen /\ back_to_post_type(Customer)
    \/ LogOpen /\ back_to_preview_handler(Customer)
    \/ \E p \in PaymentRefs : LogOpen /\ admin_confirm_payment(ADMIN_ID, p)
    \/ \E p \in PaymentRefs : LogOpen /\ continue_post_creation(Customer, p)
    \/ LogOpen /\ default_message_handler(Customer)

SpecOrder == Init /\ [][NextOrder]_vars

\* SpecBroadcast: the administrator writes one broadcast and sends it to the
\* first n users of the table, n up to MaxRecipients.
Recipients(n) == [i \in 1..n |-> i]

NextBroadcast ==
    \/ \E u \in Users : LogOpen /\ outbox = <<>> /\ admin_broadcast_start(u)
    \/ \E t \in Texts : LogOpen /\ outbox = <<>> /\ broadcast_text_received(ADMIN_ID, t)
    \/ \E n \in 0..MaxRecipients : \E outcome \in [1..n -> SendOutcomes] :
          LogOpen /\ outbox = <<>> /\ confirm_broadcast(ADMIN_ID, Recipients(n), outcome)
    \/ LogOpen /\ outbox = <<>> /\ cancel_broadcast(ADMIN_ID)

SpecBroadcast == Init /\ [][NextBroadcast]_vars

\* SpecContinue: SpecPublish, and the customer leaving the conversation,
\* starting a new one, or pressing the button of the confirmation notice.
NextContinue ==
    \/ NextPublish
    \/ PostsOpen /\ back_to_main_handler(Customer)
    \/ PostsOpen /\ create_post_start(Customer)
    \/ \E t \in PostTypes : PostsOpen /\ post_type_selected(Customer, t)
    \/ \E p \in PaymentRefs : PostsOpen /\ continue_post_creation(Customer, p)

SpecContinue == InitFields /\ [][NextContinue]_vars

\* SpecCancel: the checkout of the customer, the administrator opening
\* payments for review and for rejection, and either of them giving up.
Quit(u) ==
    \/ LogOpen /\ cancel_payment(u)
    \/ LogOpen /\ back_to_main_handler(u)
    \/ LogOpen /\ dispatch_start(u)

NextCancel ==
    \/ Checkout(Customer)
    \/ \E u \in Users : Quit(u)
    \/ \E p \in PaymentRefs : LogOpen /\ moderate_payment(ADMIN_ID, p)
    \/ \E p \in PaymentIds : LogOpen /\ reject_payment_start(ADMIN_ID, p)
    \/ LogOpen /\ admin_broadcast_start(ADMIN_ID)

SpecCancel == Init /\ [][NextCancel]_vars

(******************* receive_photo, one await at a time *******************)
\* The FSM storage is Redis (main.py): every get_data / update_data / set_state
\* is a round trip at which the event loop runs other handlers, and polling
\* handles each update in a task of its own.  A receive_photo handler in
\* flight is a record in `tasks`:
\*   photo, group   the file id and message.media_group_id ("None": no album)
\*   pc             the await it stands before
\*   photos, cur    its locals `photos` and `current_media_group`
\*   total, editing the locals of process_photos_complete
\*   waited         it has scheduled the asyncio.sleep
\*   finalized      it has called process_photos_complete
\* A read is one step with the await that follows it when that one writes
\* nothing the read depends on; the read of `photos` and its write back are
\* two steps.
Groups == {"g1", "g2"}
StoredPhotos(u) == Get(fsm_data[u], "photos", <<>>)

\* A handler that has returned keeps only what it did.
Returned(t) == [t EXCEPT !.pc = "done", !.photos = <<>>, !.cur = "None",
                         !.total = 0, !.editing = FALSE]

\* A photo message passes the filter (F.photo, PostCreation.waiting_photos);
\* data = await state.get_data(); photos.append(file_id).  File ids of the
\* photos sent here start above MAX_PHOTOS, apart from those stored before.
rp_receive(u, group) ==
    /\ fsm_state[u] = "waiting_photos"
    /\ tasks' = Append(tasks,
            [photo |-> MAX_PHOTOS + Len(tasks) + 1, group |-> group, pc |-> "put",
             photos |-> Append(StoredPhotos(u), MAX_PHOTOS + Len(tasks) + 1),
             cur |-> Get(fsm_data[u], "media_group_id", "None"),
             total |-> 0, editing |-> FALSE, waited |-> FALSE, finalized |-> FALSE])
    /\ UNCHANGED <<ledger, storage, chk, reply>>

\* The same, for at most MaxEvents photo messages.
rp_get_data(u, group) == Len(tasks) < MaxEvents /\ rp_receive(u, group)

\* await state.update_data(photos=photos), then the branch on media_group_id
rp_update_photos(u, i) ==
    /\ tasks[i].pc = "put"
    /\ UpdateData(u, [photos |-> tasks[i].photos])
    /\ tasks' = [tasks EXCEPT ![i] =
            IF tasks[i].group = "None" THEN [@ EXCEPT !.pc = "ppc", !.finalized = TRUE]
            ELSE IF tasks[i].cur # tasks[i].group THEN [@ EXCEPT !.pc = "mark"]
            ELSE Returned(@)]
    /\ UNCHANGED <<ledger, fsm_state, chk, reply>>

\* await state.update_data(media_group_id=..., processing_media_group=True);
\* the handler then starts asyncio.sleep(1.0)
rp_mark_group(u, i) ==
    /\ tasks[i].pc = "mark"
    /\ UpdateData(u, [media_group_id |-> tasks[i].group, processing_media_group |-> TRUE])
    /\ tasks' = [tasks EXCEPT ![i].pc = "sleep", ![i].waited = TRUE]
    /\ UNCHANGED <<ledger, fsm_state, chk, reply>>

\* the sleep ends; final_data = await state.get_data(); finalize if the stored
\* media_group_id is still this handler's
rp_wake(u, i) ==
    /\ tasks[i].pc = "sleep"
    /\ tasks' = [tasks EXCEPT ![i] =
            IF Get(fsm_data[u], "media_group_id", "None") = tasks[i].group
            THEN [@ EXCEPT !.pc = "ppc", !.finalized = TRUE]
            ELSE Returned(@)]
    /\ UNCHANGED <<ledger, storage, chk, reply>>

\* process_photos_complete: data = await state.get_data(); total_photos;
\* await state.update_data(processing_media_group=False, media_group_id=None)
ppc_get_data(u, i) ==
    /\ tasks[i].pc = "ppc"
    /\ tasks' = [tasks EXCEPT ![i].pc = "answer",
                              ![i].total = Len(StoredPhotos(u)),
                              ![i].editing = IsEditing(fsm_data[u])]
    /\ UpdateData(u, [processing_media_group |-> FALSE, media_group_id |-> "None"])
    /\ UNCHANGED <<ledger, fsm_state, chk, reply>>

\* process_photos_complete: the branch on total_photos, the state it sets
\* and the answer it sends
ppc_answer(u, i) ==
    /\ tasks[i].pc = "answer"
    /\ LET total == tasks[i].total
           editing == tasks[i].editing
       IN /\ SetState(u, PhotosNextState(total, editing, fsm_state[u]))
          /\ fsm_data' = [fsm_data EXCEPT ![u] =
                IF PhotosBranch(total) = "max" /\ editing
                THEN Merge(@, [is_editing |-> FALSE])
                ELSE @]
          /\ reply' = [reply EXCEPT ![u] = PhotosReply(total, editing)]
    /\ tasks' = [tasks EXCEPT ![i] = Returned(@)]
    /\ UNCHANGED <<ledger, chk>>

\* Photo counts the customer can have stored before the events of SpecPhoto:
\* none, one short of the minimum, one short of the maximum.
PriorCounts == {0, MIN_PHOTOS - 1, MAX_PHOTOS - 1}

\* SpecPhoto starts where continue_post_creation (or edit_photos_handler, when
\* editing) and n photos sent one by one leave the customer: in waiting_photos,
\* holding a confirmed payment, photos 1..n stored.
InitPhoto ==
    \E n \in PriorCounts, editing \in BOOLEAN :
        LET price == REGULAR_POST_PRICE
            opened == [payment_id |-> 1, post_type |-> post_type_of_amount(price),
                       price |-> price, photos |-> [k \in 1..n |-> k]]
            flags == IF n = 0 THEN EmptyBag
                     ELSE [processing_media_group |-> FALSE, media_group_id |-> "None"]
            edit == IF editing THEN [is_editing |-> TRUE] ELSE EmptyBag
        IN /\ payments = confirm_payment(create_payment(<<>>, Customer, price, "sbp"),
                                         1, ADMIN_ID)
           /\ admin_logs = log_admin_action(<<>>, ADMIN_ID, "payment_confirmed", 1)
           /\ posts = <<>>
           /\ users = [u \in Users |-> 0]
           /\ channel = <<>>
           /\ blocked = {}
           /\ outbox = <<>>
           /\ receipts = <<>>
           /\ fsm_state = [u \in Users |-> IF u = Customer THEN "waiting_photos" ELSE NoState]
           /\ fsm_data = [u \in Users |->
                             IF u = Customer THEN Merge(Merge(opened, flags), edit)
                             ELSE EmptyBag]
           /\ chk = [u \in Users |-> IdleChk]
           /\ tasks = <<>>
           /\ reply = [u \in Users |->
                          IF u = Customer /\ n > 0 THEN PhotosReply(n, editing)
                          ELSE NoReply]

NextPhoto ==
    \/ \E g \in Groups \cup {"None"} : rp_get_data(Customer, g)
    \/ \E i \in DOMAIN tasks : rp_update_photos(Customer, i)
    \/ \E i \in DOMAIN tasks : rp_mark_group(Customer, i)
    \/ \E i \in DOMAIN tasks : rp_wake(Customer, i)
    \/ \E i \in DOMAIN tasks : ppc_get_data(Customer, i)
    \/ \E i \in DOMAIN tasks : ppc_answer(Customer, i)
    \/ photos_next_step_handler(Customer)

SpecPhoto == InitPhoto /\ [][NextPhoto]_vars

(******************* one album of MIN_PHOTOS photos ***********************)
\* SpecAlbum: the customer, in waiting_photos with nothing stored, sends one
\* album of MIN_PHOTOS photos.  The photos reach the bot together and a
\* storage round trip is far shorter than the 1.0 s sleep: a sleep ends only
\* once the whole album is dispatched and no handler stands before a write.
InitAlbum ==
    /\ InitPhoto
    /\ StoredPhotos(Customer) = <<>>
    /\ ~IsEditing(fsm_data[Customer])

AlbumQuiet ==
    /\ Len(tasks) = MIN_PHOTOS
    /\ \A j \in DOMAIN tasks : tasks[j].pc \notin {"put", "mark"}

NextAlbum ==
    \/ Len(tasks) < MIN_PHOTOS /\ rp_receive(Customer, "g1")
    \/ \E i \in DOMAIN tasks : rp_update_photos(Customer, i)
    \/ \E i \in DOMAIN tasks : rp_mark_group(Customer, i)
    \/ \E i \in DOMAIN tasks : AlbumQuiet /\ rp_wake(Customer, i)
    \/ \E i \in DOMAIN tasks : ppc_get_data(Customer, i)
    \/ \E i \in DOMAIN tasks : ppc_answer(Customer, i)
    \/ photos_next_step_handler(Customer)

SpecAlbum == InitAlbum /\ [][NextAlbum]_vars

(****************** the photo handlers and a cancel ***********************)
\* SpecStop: SpecPhoto, and the customer pressing the cancel button of an
\* earlier payment message (cancel_payment carries no state filter) while
\* photo handlers are in flight.
NextStop ==
    \/ NextPhoto
    \/ cancel_payment(Customer)

SpecStop == InitPhoto /\ [][NextStop]_vars

(****************** the photo handlers, fairly scheduled ******************)
\* The next await of handler i.  The event loop resumes every task whose
\* await has completed, so a handler in flight is not postponed for ever:
\* each of its steps is weakly fair.  Nothing obliges the user to send a
\* photo or to press a button.
PhotoStep(i) ==
    /\ i \in DOMAIN tasks
    /\ \/ rp_update_photos(Customer, i)
       \/ rp_mark_group(Customer, i)
       \/ rp_wake(Customer, i)
       \/ ppc_get_data(Customer, i)
       \/ ppc_answer(Customer, i)

FairPhoto == SpecPhoto /\ \A i \in 1..MaxEvents : WF_vars(PhotoStep(i))

(******************************** properties ******************************)
Terminal(status) == status \in {CONFIRMED, REJECTED}

\* C1: once a confirm or a reject has made a payment terminal, a later
\* confirm or reject of it leaves its status, its confirming admin and its
\* rejection reason as they were.
C1_TerminalPaymentIsFinal ==
    [][\A p \in PaymentIds :
          Terminal(payments[p].status) /\ Terminal(payments'[p].status)
              => payments'[p] = payments[p]]_vars

\* The lifecycle order of the statuses: pending, checking, then terminal.
Rank(status) == CASE status = PENDING -> 0 [] status = CHECKING -> 1 [] OTHER -> 2

\* C2: the status of a payment never moves back to an earlier lifecycle
\* state, however check_payment_status interleaves with the review.
C2_StatusNeverMovesBack ==
    [][\A p \in PaymentIds : Rank(payments'[p].status) >= Rank(payments[p].status)]_vars

\* u owns a payment whose status is confirmed
HoldsConfirmedPayment(u) ==
    \E p \in PaymentIds : payments[p].user_id = u /\ payments[p].status = CONFIRMED

\* C3: a non-admin user enters waiting_photos, or gets a post created, only
\* while holding a confirmed payment of their own.
C3_ConfirmedPaymentGate ==
    [][\A u \in Users \ {ADMIN_ID} :
          /\ (fsm_state[u] # "waiting_photos" /\ fsm_state'[u] = "waiting_photos")
                 => HoldsConfirmedPayment(u)
          /\ (Len(posts') > Len(posts) /\ posts'[Len(posts')].user_id = u)
                 => HoldsConfirmedPayment(u)]_vars

\* C4: every payment that a confirm or a reject has touched carries the
\* administrator as its confirming identity, and in no reachable state can
\* an admin-only update (open for review, confirm, reject, payment list,
\* broadcast, receipts) sent by anyone else change a payment, the admin
\* log or a conversation (state or field bag).
C4_OnlyTheAdministrator ==
    /\ \A p \in PaymentIds :
            (Terminal(payments[p].status) \/ payments[p].confirmed_by # 0)
                => payments[p].confirmed_by = ADMIN_ID
    /\ \A u \in Users \ {ADMIN_ID} :
            ~ENABLED ((Review(u) \/ Office(u))
                        /\ ~UNCHANGED <<payments, admin_logs, fsm_state, fsm_data>>)

\* C4 witness: the customer, waiting for the review of a payment, has just
\* been refused an admin-only update, and the administrator has rejected it.
C4_Witness ==
    /\ reply[Customer].kind = "denied"
    /\ fsm_state[Customer] = "waiting_payment"
    /\ \E p \in PaymentIds :
          /\ payments[p].user_id = Customer
          /\ payments[p].status = REJECTED
          /\ payments[p].confirmed_by = ADMIN_ID

\* C5: no payment is stored as rejected with an empty rejection reason.
C5_RejectedHasReason ==
    \A p \in PaymentIds :
        payments[p].status = REJECTED => payments[p].rejection_reason \notin {<<>>, NullText}

\* The handlers of the album with batch id g
Batch(g) == {i \in DOMAIN tasks : tasks[i].group = g}
AllReturned == tasks # <<>> /\ \A i \in DOMAIN tasks : tasks[i].pc = "done"

\* C6: of the handlers of one album, at most one schedules the wait and at
\* most one finalizes, and once all have returned one has finalized.
C6_OneFinalizerPerBatch ==
    \A g \in Groups :
        /\ Cardinality({i \in Batch(g) : tasks[i].waited}) <= 1
        /\ Cardinality({i \in Batch(g) : tasks[i].finalized}) <= 1
        /\ (AllReturned /\ Batch(g) # {})
              => Cardinality({i \in Batch(g) : tasks[i].finalized}) = 1

\* C7: once every photo handler has returned, the stored list holds the
\* photo of each of them.
C7_NoPhotoLost ==
    AllReturned =>
        \A i \in DOMAIN tasks : tasks[i].photo \in Range(StoredPhotos(Customer))

\* C8: when a conversation leaves waiting_photos for waiting_title or
\* confirming_post, and when a post is created, the photo count is within
\* [MIN_PHOTOS, MAX_PHOTOS].
C8_PhotoCountWithinBounds ==
    [][\A u \in Users :
          /\ (fsm_state[u] = "waiting_photos"
                 /\ fsm_state'[u] \in {"waiting_title", "confirming_post"})
                => Len(Get(fsm_data'[u], "photos", <<>>)) \in MIN_PHOTOS..MAX_PHOTOS
          /\ Len(posts') > Len(posts)
                => Len(posts'[Len(posts')].photos) \in MIN_PHOTOS..MAX_PHOTOS]_vars

\* Handler i sends the answer of its process_photos_complete in this step.
Answering(i) == tasks[i].pc = "answer" /\ tasks'[i].pc = "done"
\* Handler i has written its photo to the storage.
Accepted(i) == tasks[i].pc # "put"

\* C9: a finalize that found fewer than MIN_PHOTOS photos answers with
\* remaining = MIN_PHOTOS - the count it found, the state stays
\* waiting_photos, and the stored list holds every photo accepted so far.
C9_RepromptBelowMinimum ==
    [][\A i \in DOMAIN tasks :
          (Answering(i) /\ tasks[i].total < MIN_PHOTOS)
            => /\ reply'[Customer] = Answer("need_more", tasks[i].total,
                                            MIN_PHOTOS - tasks[i].total)
               /\ fsm_state'[Customer] = "waiting_photos"
               /\ \A j \in DOMAIN tasks :
                     Accepted(j) => tasks[j].photo \in Range(Get(fsm_data'[Customer], "photos", <<>>))]_vars

\* C10 as stated: a finalize that found a count within [MIN_PHOTOS, MAX_PHOTOS]
\* moves the conversation to waiting_title and does not ask for more photos.
C10_ValidCountGoesToTitle ==
    [][\A i \in DOMAIN tasks :
          (Answering(i) /\ tasks[i].total \in MIN_PHOTOS..MAX_PHOTOS)
            => /\ fsm_state'[Customer] = "waiting_title"
               /\ reply'[Customer].kind # "need_more"]_vars

\* C10 amended: a finalize that found a count within [MIN_PHOTOS, MAX_PHOTOS]
\* never asks for more photos; at MAX_PHOTOS it moves the conversation to
\* waiting_title (confirming_post when editing); below MAX_PHOTOS it leaves
\* the state alone and offers the "next" button, and pressing that button
\* with at least MIN_PHOTOS stored moves the conversation to waiting_title
\* (confirming_post when editing).
C10_ValidCountOffersNext ==
    /\ [][\A i \in DOMAIN tasks :
            (Answering(i) /\ tasks[i].total \in MIN_PHOTOS..MAX_PHOTOS)
              => /\ reply'[Customer].kind # "need_more"
                 /\ IF tasks[i].total = MAX_PHOTOS
                    THEN fsm_state'[Customer] =
                            (IF tasks[i].editing THEN "confirming_post" ELSE "waiting_title")
                    ELSE /\ reply'[Customer].kind = "offer_next"
                         /\ fsm_state'[Customer] = fsm_state[Customer]]_vars
    /\ [][(photos_next_step_handler(Customer)
              /\ Len(StoredPhotos(Customer)) >= MIN_PHOTOS)
            => fsm_state'[Customer] =
                  (IF IsEditing(fsm_data[Customer]) THEN "confirming_post"
                   ELSE "waiting_title")]_vars

\* C10 witness: a finalize has found a count from MIN_PHOTOS to below
\* MAX_PHOTOS and offered the "next" button; the customer is still in
\* waiting_photos.
C10_Witness ==
    /\ \E i \in DOMAIN tasks : tasks[i].finalized /\ tasks[i].pc = "done"
    /\ reply[Customer].kind = "offer_next"
    /\ reply[Customer].total \in MIN_PHOTOS..(MAX_PHOTOS - 1)
    /\ fsm_state[Customer] = "waiting_photos"

\* C11: an album of exactly MIN_PHOTOS photos is finalized by one handler
\* only; the finalize finds MIN_PHOTOS photos, offers the "next" button and
\* leaves the state waiting_photos; the state leaves waiting_photos only when
\* the user presses that button.
C11_AlbumOfMinimumOffersNext ==
    /\ [](Cardinality({i \in DOMAIN tasks : tasks[i].finalized}) <= 1)
    /\ [][\A i \in DOMAIN tasks :
            Answering(i)
              => /\ reply'[Customer] = Answer("offer_next", MIN_PHOTOS, 0)
                 /\ fsm_state'[Customer] = "waiting_photos"]_vars
    /\ [][(fsm_state[Customer] = "waiting_photos"
              /\ fsm_state'[Customer] # "waiting_photos")
            => photos_next_step_handler(Customer)]_vars

\* What a refused input leaves: the conversation state, every stored field
\* and the ledger as they were, and the validation error as the answer.
Refused ==
    /\ UNCHANGED <<fsm_state, fsm_data, ledger>>
    /\ reply'[Customer].kind = "invalid"

\* C12: in no reachable state can a title, description, price or contact
\* that fails its validation do anything but be refused; a title containing
\* "<" is such an input, and the state stays waiting_title.
C12_InvalidInputChangesNothing ==
    /\ \A t \in Titles :
          ("<" \in Range(t) \/ ~validate_title(Strip(t)))
            => ~ENABLED (receive_title(Customer, t)
                           /\ ~(Refused /\ fsm_state'[Customer] = "waiting_title"))
    /\ \A t \in Descriptions :
          ~validate_description(Strip(t))
            => ~ENABLED (receive_description(Customer, t) /\ ~Refused)
    /\ \A t \in PriceTexts :
          ~PriceChecked[t].is_valid
            => ~ENABLED (receive_price(Customer, t) /\ ~Refused)
    /\ \A t \in Contacts :
          ~validate_contact_info(Strip(t))
            => ~ENABLED (receive_contact(Customer, t) /\ ~Refused)

\* C12 witness: the customer, asked for the title with the photos stored,
\* has just been told that the title sent is not valid; no title is stored.
C12_Witness ==
    /\ fsm_state[Customer] = "waiting_title"
    /\ reply[Customer].kind = "invalid"
    /\ Len(Get(fsm_data[Customer], "photos", <<>>)) >= MIN_PHOTOS
    /\ "title" \notin DOMAIN fsm_data[Customer]

\* The user-initiated cancels: the three cancel buttons and the /start command.
Cancel(u) ==
    \/ cancel_payment(u)
    \/ cancel_post(u)
    \/ back_to_main_handler(u)
    \/ dispatch_start(u)

\* C13: from any conversation state, a cancel leaves the user's state
\* cleared and the field bag empty.
C13_CancelClearsConversation ==
    [][\A u \in Users :
          Cancel(u) => fsm_state'[u] = NoState /\ fsm_data'[u] = EmptyBag]_vars

\* C14: a cancel changes no payment, and no payment row is ever deleted.
C14_CancelChangesNoPayment ==
    /\ [][\A u \in Users : Cancel(u) => payments' = payments]_vars
    /\ [][Len(payments') >= Len(payments)]_vars

\* C15: when the channel refuses the media group, confirm_post leaves a draft
\* row without message reference, the earlier rows, the post count and the
\* channel as they were, and the conversation in confirming_post with its bag.
C15_FailedPublishLeavesDraft ==
    [][\A u \in Users :
          (\E pin_ok \in BOOLEAN : confirm_post(u, FALSE, pin_ok))
              => /\ \A p \in DOMAIN posts : posts'[p] = posts[p]
                 /\ \A p \in DOMAIN posts' \ DOMAIN posts :
                        /\ posts'[p].status = "draft"
                        /\ posts'[p].message_id = 0
                        /\ ~posts'[p].published
                 /\ users' = users
                 /\ channel' = channel
                 /\ fsm_state'[u] = "confirming_post"
                 /\ fsm_data'[u] = fsm_data[u]]_vars

C15_Witness ==
    /\ \E p \in DOMAIN posts :
          posts[p].user_id = Customer /\ posts[p].status = "draft" /\ posts[p].message_id = 0
    /\ channel = <<>>
    /\ blocked = {}
    /\ outbox = <<>>
    /\ users[Customer] = 0
    /\ fsm_state[Customer] = "confirming_post"
    /\ PostKeys \subseteq DOMAIN fsm_data[Customer]

\* C16: a pinned post whose media group the channel accepted is published
\* with the id of the first message also when the pin call fails.
C16_PinFailureStillPublishes ==
    [][\A u \in Users :
          (/\ confirm_post(u, TRUE, FALSE)
           /\ PostKeys \subseteq DOMAIN fsm_data[u]
           /\ fsm_data[u]["post_type"] = "pinned"
           /\ fsm_data[u]["photos"] # <<>>)
              => LET p == Len(posts')
                 IN /\ p = Len(posts) + 1
                    /\ posts'[p].status = "published"
                    /\ posts'[p].message_id = Len(channel) + 1
                    /\ Len(channel') = Len(channel) + Len(fsm_data[u]["photos"])
                    /\ ~channel'[posts'[p].message_id].pinned]_vars

C16_Witness ==
    \E p \in DOMAIN posts :
        /\ posts[p].post_type = "pinned"
        /\ posts[p].status = "published"
        /\ posts[p].message_id \in DOMAIN channel
        /\ ~channel[posts[p].message_id].pinned

\* C17: every confirmed or rejected payment has a log entry with the admin,
\* the action and the payment; log entries are appended, never changed or
\* removed.
C17_EveryMutationLogged ==
    /\ [](\A p \in PaymentIds :
            payments[p].status \in {CONFIRMED, REJECTED}
                => \E l \in DOMAIN admin_logs :
                      /\ admin_logs[l].target_payment_id = p
                      /\ admin_logs[l].admin_id = payments[p].confirmed_by
                      /\ admin_logs[l].action = IF payments[p].status = CONFIRMED
                                                THEN "payment_confirmed"
                                                ELSE "payment_rejected")
    /\ [][/\ Len(admin_logs') >= Len(admin_logs)
          /\ \A l \in DOMAIN admin_logs : admin_logs'[l] = admin_logs[l]]_vars

\* C18: when the notice of a confirm or a reject cannot be delivered, the
\* payment has its terminal status, the log entry is appended all the same,
\* and the notice is tried once: every try comes with a new log entry.
C18_FailedNoticeKeepsTransition ==
    [][Len(outbox') > Len(outbox)
          => LET e == outbox'[Len(outbox')]
                 done == IF e.kind = "confirmed" THEN CONFIRMED ELSE REJECTED
                 action == IF e.kind = "confirmed" THEN "payment_confirmed"
                                                   ELSE "payment_rejected"
             IN /\ Len(outbox') = Len(outbox) + 1
                /\ payments'[e.payment_id].status = done
                /\ admin_logs' = log_admin_action(admin_logs, ADMIN_ID, action, e.payment_id)]_vars

C18_Witness ==
    \E k \in DOMAIN outbox :
        /\ ~outbox[k].delivered
        /\ outbox[k].kind = "rejected"
        /\ payments[outbox[k].payment_id].status = REJECTED
        /\ \E l \in DOMAIN admin_logs :
              /\ admin_logs[l].action = "payment_rejected"
              /\ admin_logs[l].target_payment_id = outbox[k].payment_id

\* C19: for an id that matches no payment the three updates return false,
\* and a confirm or a reject carrying such an id changes no payment, sends
\* no notice and appends no log entry.
C19_MissingPaymentReported ==
    [][\A p \in PaymentRefs \ PaymentIds :
          \/ admin_confirm_payment(ADMIN_ID, p)
          \/ /\ Get(fsm_data[ADMIN_ID], "rejecting_payment_id", 0) = p
             /\ \E t \in Texts : reject_payment_reason(ADMIN_ID, t)
          => /\ ~update_returns(payments, p)
             /\ UNCHANGED <<payments, admin_logs, outbox>>]_vars

\* C20: a payment becomes confirmed or rejected only when it was checking
\* (the administrator's own payment, created confirmed, excepted), and
\* becomes checking only when it was pending, by the review request of the
\* user who owns it.
C20_TransitionsFromChecking ==
    [][/\ \A p \in PaymentIds :
            /\ (/\ payments'[p].status \in {CONFIRMED, REJECTED}
                /\ payments'[p].status # payments[p].status)
                   => payments[p].status = CHECKING
            /\ (payments'[p].status = CHECKING /\ payments[p].status # CHECKING)
                   => /\ payments[p].status = PENDING
                      /\ chk[payments[p].user_id] = [pc |-> "write", payment_id |-> p]
                      /\ chk'[payments[p].user_id] = IdleChk
       /\ \A p \in DOMAIN payments' \ PaymentIds :
            \/ payments'[p].status = PENDING
            \/ payments'[p].status = CONFIRMED /\ payments'[p].user_id = ADMIN_ID]_vars

\* C21: the list the administrator is shown holds exactly the payments in
\* checking, each once, the earlier created first.
C21_ListIsCheckingOldestFirst ==
    [][\A u \in Users :
          (reply'[u].kind = "payments" /\ reply'[u] # reply[u])
              => LET list == reply'[u].list
                 IN /\ \A p \in PaymentIds :
                         payments[p].status = CHECKING <=> \E i \in DOMAIN list : list[i] = p
                    /\ \A i \in DOMAIN list : list[i] \in PaymentIds
                    /\ \A i, j \in DOMAIN list : i < j => list[i] < list[j]]_vars

C21_Witness ==
    /\ reply[ADMIN_ID].kind = "payments"
    /\ Len(reply[ADMIN_ID].list) >= 2
    /\ \E p \in PaymentIds : payments[p].status # CHECKING

\* C22: the administrator's choice of a post type appends a payment with
\* method admin_auto, confirmed by the administrator, and moves straight to
\* waiting_photos; anyone else's choice leaves the payments as they are.
C22_AdminPaymentAutoConfirmed ==
    [][\A u \in Users :
          (\E t \in PostTypes : post_type_selected(u, t))
              => IF u = ADMIN_ID
                 THEN LET p == Len(payments')
                      IN /\ p = Len(payments) + 1
                         /\ \A q \in PaymentIds : payments'[q] = payments[q]
                         /\ payments'[p].user_id = ADMIN_ID
                         /\ payments'[p].method = "admin_auto"
                         /\ payments'[p].status = CONFIRMED
                         /\ payments'[p].confirmed_by = ADMIN_ID
                         /\ fsm_state'[u] = "waiting_photos"
                         /\ Get(fsm_data'[u], "payment_id", 0) = p
                 ELSE /\ payments' = payments
                      /\ fsm_state'[u] = "choosing_payment_method"]_vars

C22_Witness ==
    /\ fsm_state[ADMIN_ID] = "waiting_photos"
    /\ \E p \in PaymentIds :
          /\ payments[p].method = "admin_auto"
          /\ payments[p].status = CONFIRMED
          /\ Get(fsm_data[ADMIN_ID], "payment_id", 0) = p
    /\ fsm_state[Customer] = "choosing_payment_method"
    /\ \A p \in PaymentIds : payments[p].user_id # Customer

\* C23: a customer's conversation moves only to the next state of
\* PostCreation, to the cleared state, from the cleared state to the first
\* state, or, with is_editing, between confirming_post and a waiting state.
C23_StrictOrder ==
    [][\A u \in Users \ {ADMIN_ID} :
          fsm_state'[u] # fsm_state[u]
              => \/ fsm_state'[u] = NoState
                 \/ fsm_state[u] = NoState /\ fsm_state'[u] = PostCreationOrder[1]
                 \/ \E i \in 1..(Len(PostCreationOrder) - 1) :
                       fsm_state[u] = PostCreationOrder[i] /\ fsm_state'[u] = PostCreationOrder[i + 1]
                 \/ /\ fsm_state'[u] = "confirming_post"
                    /\ fsm_state[u] \in EditTargets \cup {"waiting_photos"}
                    /\ IsEditing(fsm_data[u])
                 \/ /\ fsm_state[u] = "confirming_post"
                    /\ fsm_state'[u] \in EditTargets \cup {"waiting_photos"}
                    /\ IsEditing(fsm_data'[u])]_vars

\* C24: a broadcast sends to every recipient of the list once, in order,
\* whatever the earlier sends did, and reports total = sent + blocked +
\* failed, where a send refused with "blocked by the user" or "chat not
\* found" is counted as blocked and any other failing send as failed.
C24_BroadcastCountsEveryRecipient ==
    [][\A n \in 0..MaxRecipients : \A outcome \in [1..n -> SendOutcomes] :
          (/\ confirm_broadcast(ADMIN_ID, Recipients(n), outcome)
           /\ reply'[ADMIN_ID].kind = "broadcast"
           /\ n > 0)
              => LET r == reply'[ADMIN_ID]
                     Count(os) == Cardinality({i \in 1..n : outcome[i] \in os})
                 IN /\ Len(outbox') = Len(outbox) + n
                    /\ \A i \in 1..n :
                          /\ outbox'[Len(outbox) + i].chat_id = Recipients(n)[i]
                          /\ outbox'[Len(outbox) + i].delivered = (outcome[i] = "ok")
                    /\ r.total = n
                    /\ r.sent = Count({"ok"})
                    /\ r.blocked = Count({"blocked by the user", "chat not found"})
                    /\ r.failed = Count({"error"})
                    /\ r.total = r.sent + r.blocked + r.failed]_vars

C24_Witness ==
    /\ reply[ADMIN_ID].kind = "broadcast"
    /\ reply[ADMIN_ID].total = 3
    /\ reply[ADMIN_ID].sent = 2
    /\ reply[ADMIN_ID].blocked = 1
    /\ reply[ADMIN_ID].failed = 0
    /\ Len(outbox) = 3
    /\ ~outbox[2].delivered

\* C25: the post type of the confirmation notice and the post type stored
\* when the owner continues are pinned exactly when the amount of the
\* payment is the pinned price, and regular otherwise.
C25_PostTypeFromAmount ==
    /\ [](\A k \in DOMAIN outbox :
            outbox[k].kind = "confirmed"
                => (outbox[k].post_type = "pinned"
                       <=> payments[outbox[k].payment_id].amount = PINNED_POST_PRICE)
                   /\ outbox[k].post_type \in {"pinned", "regular"})
    /\ [][\A u \in Users : \A p \in PaymentIds :
            (continue_post_creation(u, p) /\ continue_allowed(u, p))
                => fsm_data'[u]["post_type"] =
                      IF payments[p].amount = PINNED_POST_PRICE THEN "pinned"
                      ELSE "regular"]_vars

C25_Witness ==
    /\ \E k \in DOMAIN outbox :
          /\ outbox[k].kind = "confirmed"
          /\ outbox[k].post_type = "pinned"
          /\ payments[outbox[k].payment_id].status = CONFIRMED
    /\ fsm_state[Customer] = "waiting_photos"
    /\ Get(fsm_data[Customer], "post_type", "None") = "pinned"
    /\ Get(fsm_data[Customer], "photos", <<0>>) = <<>>

\* C26: whatever the conversation state of the owner of a confirmed
\* payment, the continue button is taken and leaves the owner in
\* waiting_photos with the payment id, the post type derived from the
\* amount and an empty photo list.
Continued(u, p) ==
    /\ fsm_state'[u] = "waiting_photos"
    /\ Get(fsm_data'[u], "payment_id", 0) = p
    /\ Get(fsm_data'[u], "post_type", "None") = post_type_of_amount(payments[p].amount)
    /\ Get(fsm_data'[u], "photos", <<0>>) = <<>>

C27_BadReferenceChangesNothing ==
    \A u \in Users : \A p \in PaymentRefs :
        /\ (p \notin PaymentIds \/ payments[p].user_id # u \/ payments[p].status # CONFIRMED)
              => ~ENABLED (/\ continue_post_creation(u, p)
                           /\ ~UNCHANGED <<payments, fsm_state, fsm_data>>)
        /\ (p \notin PaymentIds \/ payments[p].user_id # u)
              => ~ENABLED (/\ check_payment_read(u, p)
                           /\ ~UNCHANGED <<payments, fsm_state, fsm_data, chk>>)

C27_Witness ==
    /\ fsm_state[Customer] = "waiting_payment"
    /\ chk[Customer].pc = "idle"
    /\ reply[Customer].kind = "other"
    /\ Len(payments) >= 2
    /\ payments[1].user_id = ADMIN_ID
    /\ payments[2].status = PENDING

\* C28: a round of the payment checker changes no payment and no
\* conversation; it sends nothing while no payment is in review, and
\* exactly one reminder, to the administrator, while one is.
C28_PollerOnlyReminds ==
    /\ ~ENABLED (/\ check_pending_payments
                 /\ ~UNCHANGED <<payments, fsm_state, fsm_data, chk, admin_logs, posts>>)
    /\ (\A p \in PaymentIds : payments[p].status # CHECKING)
          => ~ENABLED (check_pending_payments /\ outbox' # outbox)
    /\ (\E p \in PaymentIds : payments[p].status = CHECKING)
          => ~ENABLED (/\ check_pending_payments
                       /\ ~(/\ Len(outbox') = Len(outbox) + 1
                             /\ SubSeq(outbox', 1, Len(outbox)) = outbox
                             /\ outbox'[Len(outbox')].chat_id = ADMIN_ID
                             /\ outbox'[Len(outbox')].kind = "reminder"))

C28_Witness ==
    /\ Len(outbox) >= 1
    /\ outbox[Len(outbox)].kind = "reminder"
    /\ outbox[Len(outbox)].chat_id = ADMIN_ID
    /\ \E p \in PaymentIds : payments[p].status = CHECKING
    /\ fsm_state[Customer] = "waiting_payment"

\* C29: a price text with at most two decimals, after a comma or a point,
\* is stored to the kopeck and its rendering reads back as the stored
\* price: "15000,50" is stored as 15000.50 and rendered "15 000.50".
C29_PriceRoundTrip ==
    /\ validate_price(<<"1", "5", "0", "0", "0", ",", "5", "0">>)
          = [is_valid |-> TRUE, price |-> 1500050]
    /\ format_price(1500050) = <<"1", "5", " ", "0", "0", "0", ".", "5", "0">>
    /\ validate_price(<<"0", ".", "0", "5">>).price = 5
    /\ validate_price(<<"1", ",", "5">>).price = 150
    /\ validate_price(<<"1", "2", "3", "4", "5", "6", "7", ".", "8", "9">>).price = 123456789
    /\ format_price(123456789) = <<"1", " ", "2", "3", "4", " ", "5", "6", "7", ".", "8", "9">>
    /\ format_price(100000) = <<"1", " ", "0", "0", "0">>
    /\ \A t \in PriceInputs :
          PriceChecked[t].is_valid
            => /\ validate_price(format_price(PriceChecked[t].price)).price
                    = PriceChecked[t].price
               /\ validate_price(CommaToDot(t)) = PriceChecked[t]
    /\ [][\A t \in PriceInputs :
             (receive_price(Customer, t) /\ PriceChecked[t].is_valid)
               => /\ "price" \in DOMAIN fsm_data'[Customer]
                  /\ fsm_data'[Customer].price = PriceChecked[t].price
                  /\ validate_price(format_price(fsm_data'[Customer].price)).price
                       = PriceChecked[t].price]_vars

C29_Witness ==
    /\ fsm_state[Customer] = "waiting_contact"
    /\ "price" \in DOMAIN fsm_data[Customer]
    /\ fsm_data[Customer].price = 1500050
    /\ format_price(fsm_data[Customer].price) = <<"1", "5", " ", "0", "0", "0", ".", "5", "0">>

\* C30: for a user without a stored context the state reads as none and
\* every field as its default; the handlers that accept an event in that
\* situation run to their answer, none of them failing on an absent field,
\* and the handler that reads fields without a default is not among them.
C30_NoContextIsFresh ==
    \A u \in Users :
        (fsm_state[u] = NoState /\ fsm_data[u] = EmptyBag)
          => /\ \A k \in PostKeys \cup {"is_editing", "payment_id"} :
                   Get(fsm_data[u], k, 0) = 0
             /\ ~IsEditing(fsm_data[u])
             /\ ENABLED default_message_handler(u)
             /\ ENABLED back_to_preview_handler(u)
             /\ ~ENABLED (back_to_preview_handler(u) /\ reply'[u].kind = "error")
             /\ ~ENABLED (\E sent, pin_ok \in BOOLEAN : confirm_post(u, sent, pin_ok))

C30_Witness ==
    /\ fsm_state[Customer] = "confirming_post"
    /\ fsm_data[Customer] = [is_editing |-> FALSE]
    /\ reply[Customer].kind = "other"
    /\ payments = <<>>

\* C31: an edit button pressed in confirming_post enters the waiting state
\* of its field with is_editing set and every collected field kept; the
\* step that leaves that waiting state while editing ends in
\* confirming_post with is_editing cleared and every field but the edited
\* one unchanged.
C31_EditTouchesOneField ==
    [][LET u == Customer
           field == CASE fsm_state[u] = "waiting_title" -> "title"
                      [] fsm_state[u] = "waiting_condition" -> "condition"
                      [] fsm_state[u] = "waiting_description" -> "description"
                      [] fsm_state[u] = "waiting_price" -> "price"
                      [] fsm_state[u] = "waiting_contact" -> "contact_info"
                      [] OTHER -> "none"
       IN /\ \A t \in EditTargets :
                edit_field_handler(u, t)
                  => /\ fsm_state'[u] = t
                     /\ IsEditing(fsm_data'[u])
                     /\ \A k \in DOMAIN fsm_data[u] \ {"is_editing"} :
                           /\ k \in DOMAIN fsm_data'[u]
                           /\ fsm_data'[u][k] = fsm_data[u][k]
          /\ (/\ fsm_state[u] \in EditTargets
              /\ IsEditing(fsm_data[u])
              /\ fsm_state'[u] # fsm_state[u])
                  => /\ fsm_state'[u] = "confirming_post"
                     /\ "is_editing" \in DOMAIN fsm_data'[u]
                     /\ ~IsEditing(fsm_data'[u])
                     /\ DOMAIN fsm_data[u] \subseteq DOMAIN fsm_data'[u]
                     /\ DOMAIN fsm_data'[u] \subseteq DOMAIN fsm_data[u] \cup {field}
                     /\ \A k \in DOMAIN fsm_data[u] \ {"is_editing", field} :
                           fsm_data'[u][k] = fsm_data[u][k]]_vars

C31_Witness ==
    /\ fsm_state[Customer] = "confirming_post"
    /\ PostKeys \subseteq DOMAIN fsm_data[Customer]
    /\ "is_editing" \in DOMAIN fsm_data[Customer]
    /\ ~IsEditing(fsm_data[Customer])
    /\ fsm_data[Customer].price = 1500050
    /\ reply[Customer].kind = "other"

\* C32: a receipt delivery makes one send, and a second one exactly when the
\* first failed; a receipt row and a receipt_sent log entry are written
\* together and only when one of the sends succeeded; after two failed
\* sends nothing is written and the administrator's context is cleared.
C32_ReceiptOnlyWhenDelivered ==
    [][LET n == Len(outbox)
           sends == {k \in (n + 1)..Len(outbox') : outbox'[k].kind = "receipt"}
           logged == /\ Len(admin_logs') = Len(admin_logs) + 1
                     /\ admin_logs'[Len(admin_logs')].action = "receipt_sent"
       IN /\ (sends # {} \/ receipts' # receipts \/ logged)
              => /\ Cardinality(sends) \in {1, 2}
                 /\ Cardinality(sends) = 2 <=> ~outbox'[n + 1].delivered
                 /\ (receipts' # receipts) <=> logged
                 /\ (receipts' # receipts) <=> (\E k \in sends : outbox'[k].delivered)
                 /\ receipts' # receipts
                       => /\ Len(receipts') = Len(receipts) + 1
                          /\ SubSeq(receipts', 1, Len(receipts)) = receipts
                          /\ receipts'[Len(receipts')].payment_id = outbox'[n + 1].payment_id
                          /\ admin_logs'[Len(admin_logs')].target_payment_id
                                = outbox'[n + 1].payment_id
                 /\ receipts' = receipts
                       => /\ UNCHANGED <<payments, admin_logs>>
                          /\ fsm_state'[ADMIN_ID] = NoState
                          /\ fsm_data'[ADMIN_ID] = EmptyBag]_vars

C32_Witness ==
    /\ Len(outbox) >= 2
    /\ outbox[Len(outbox)].kind = "receipt"
    /\ outbox[Len(outbox) - 1].kind = "receipt"
    /\ ~outbox[Len(outbox)].delivered
    /\ ~outbox[Len(outbox) - 1].delivered
    /\ blocked = {}
    /\ receipts = <<>>
    /\ fsm_state[ADMIN_ID] = NoState
    /\ reply[ADMIN_ID].kind = "error"

\* C33: every post is the post some payment references, and a payment
\* whose post has been created cannot start the assembly of another post.
C33_OnePostPerPayment ==
    /\ \A q \in DOMAIN posts : \E p \in PaymentIds : payments[p].post_id = q
    /\ \A u \in Users : \A p \in PaymentIds :
          (/\ Len(payments) = 1
           /\ payments[p].user_id = u
           /\ \E q \in DOMAIN posts : posts[q].user_id = u)
              => ~ENABLED (/\ continue_post_creation(u, p)
                           /\ fsm_state'[u] = "waiting_photos")

\* C34: however the confirm_post handlers of one user interleave, the user
\* has at most one published post and a post count of at most one per
\* assembled preview.
C34_ConcurrentConfirmPublishesOnce ==
    \A u \in Users :
        /\ Cardinality({q \in DOMAIN posts : posts[q].user_id = u /\ posts[q].published}) <= 1
        /\ users[u] <= 1

\* C35: a payment becomes rejected only in a step of the administrator whose
\* field bag names it as current_payment_id, the payment last opened for
\* review.
C35_ReasonRejectsCurrentPayment ==
    [][\A p \in PaymentIds :
          (payments'[p] # payments[p] /\ payments'[p].status = REJECTED)
              => Get(fsm_data[ADMIN_ID], "current_payment_id", 0) = p]_vars

\* C36: once a cancel has cleared the customer's context (no state, empty
\* field bag), no step of a photo handler still in flight gives the
\* customer a state or a field again.
C36_CancelOutlastsPhotoHandlers ==
    [][(fsm_state[Customer] = NoState /\ fsm_data[Customer] = EmptyBag)
          => (fsm_state'[Customer] = NoState /\ fsm_data'[Customer] = EmptyBag)]_vars

\* The answers of process_photos_complete
PhotoAnswers == {"ask_title", "preview", "offer_next", "need_more"}

\* C37: under fair scheduling, once photo handlers are in flight one of
\* them eventually finalizes, and when all of them have returned and one
\* only has finalized, the count it reported is the number of photos stored.
C37_BurstIsFinalizedWithItsCount ==
    /\ [](tasks # <<>> => <>(\E i \in DOMAIN tasks : tasks[i].finalized))
    /\ []((/\ AllReturned
           /\ Cardinality({i \in DOMAIN tasks : tasks[i].finalized}) = 1
           /\ reply[Customer].kind \in PhotoAnswers)
             => reply[Customer].total = Len(StoredPhotos(Customer)))

\* C38: whenever a user's state is confirming_post, the field bag holds
\* every field confirm_post reads: post_type, title, condition,
\* description, price, contact_info and the photo list.
C38_PreviewHoldsEveryField ==
    \A u \in Users :
        fsm_state[u] = "confirming_post" => PostKeys \subseteq DOMAIN fsm_data[u]

\* C39: a step that puts a post in the channel leaves its row with status
\* published and the id of its first channel message, and a post count
\* grows by one, in a step that publishes a post of that user in this way.
C39_PublishedPostIsStored ==
    [][LET p == Len(posts')
           stored == /\ p = Len(posts) + 1
                     /\ posts'[p].status = "published"
                     /\ posts'[p].published
                     /\ posts'[p].message_id = Len(channel) + 1
                     /\ Len(channel') > Len(channel)
       IN /\ Len(channel') > Len(channel) => stored
          /\ \A u \in Users :
                users'[u] # users[u]
                    => /\ users'[u] = users[u] + 1
                       /\ stored
                       /\ posts'[p].user_id = u]_vars

\* C40: a moderation update of the administrator (opening a payment for
\* review, confirming, starting a rejection, entering its reason) that
\* arrives while the administrator is assembling a post leaves the
\* administrator's state and every collected field as they were.
C40_ModerationKeepsOwnAssembly ==
    [][(Review(ADMIN_ID) /\ fsm_state[ADMIN_ID] \in PostCreation)
          => /\ fsm_state'[ADMIN_ID] = fsm_state[ADMIN_ID]
             /\ \A k \in DOMAIN fsm_data[ADMIN_ID] :
                   /\ k \in DOMAIN fsm_data'[ADMIN_ID]
                   /\ fsm_data'[ADMIN_ID][k] = fsm_data[ADMIN_ID][k]]_vars

====
